---------------------------- MODULE Spec2Model ----------------------------
(***************************************************************************)
(* Rank-fusion engine of BioMark (server/modules/feature_selection.py):    *)
(* feature_rank and its inner rank_dict, with the files it writes and the  *)
(* log entries it produces.                                                *)
(*                                                                         *)
(* Python values are tagged records (Num, Str, Dict, List, None); a dict   *)
(* is the sequence of its items in insertion order.  Scores, weights and   *)
(* rrf_k are integers; weighted means are exact fractions compared by      *)
(* cross-multiplication and sums of reciprocal ranks are taken over their  *)
(* common denominator.  The run label, which the code takes apart, is a    *)
(* sequence of one-character strings.                                      *)
(***************************************************************************)
EXTENDS Integers, Sequences, FiniteSets, TLC

(***************************************************************************)
(* Bounds of the model.                                                    *)
(***************************************************************************)
MaxFeatures == 3
MaxScore == 2
MaxLabelLen == 3
MaxPairs == 2
MaxTop == 2
MaxRrfK == 12

(***************************************************************************)
(* Python values.                                                          *)
(***************************************************************************)
None == [t |-> "none", v |-> 0, items |-> <<>>]
Num(n) == [t |-> "num", v |-> n, items |-> <<>>]
Str(n) == [t |-> "str", v |-> n, items |-> <<>>]
Dict(s) == [t |-> "dict", v |-> 0, items |-> s]
List(n) == [t |-> "list", v |-> n, items |-> <<>>]
Item(k, val) == [k |-> k, val |-> val]

isinstance_dict(x) == x.t = "dict"
\* isinstance(v, (int, float, np.number)); every Num of the model is finite
isinstance_number(x) == x.t = "num"

Keys(items) == [i \in DOMAIN items |-> items[i].k]
KeySet(items) == {items[i].k : i \in DOMAIN items}
Range(s) == {s[i] : i \in DOMAIN s}

\* dict.get(key, default) on the items of a dict
Get(items, key, default) ==
    IF \E i \in DOMAIN items : items[i].k = key
    THEN items[CHOOSE i \in DOMAIN items : items[i].k = key].val
    ELSE default

\* d[key] = val: an existing key keeps its place, a new key goes last
Put(items, key, val) ==
    IF \E i \in DOMAIN items : items[i].k = key
    THEN [i \in DOMAIN items |-> IF items[i].k = key THEN Item(key, val) ELSE items[i]]
    ELSE Append(items, Item(key, val))

\* str.lower() on the names the model uses
LowerTable == ("A" :> "a") @@ ("B" :> "b") @@ ("C" :> "c") @@ ("SHAP" :> "shap")
              @@ ("SUM" :> "sum") @@ ("RRF" :> "rrf")
              @@ ("Decision Tree" :> "decision tree")
              @@ ("Random Forest" :> "random forest")
              @@ ("Gradient Boosting" :> "gradient boosting")
              @@ ("Logistic Regression" :> "logistic regression")
              @@ ("XGBClassifier" :> "xgbclassifier")
              @@ ("CatBoosting Classifier" :> "catboosting classifier")
              @@ ("AdaBoost Classifier" :> "adaboost classifier")
              @@ ("MLPClassifier" :> "mlpclassifier")
              @@ ("SVC" :> "svc")
lower(s) == IF s \in DOMAIN LowerTable THEN LowerTable[s] ELSE s

(***************************************************************************)
(* Fractions n/d with d > 0, and the stable sorts of Python's sorted() and *)
(* of sort_values on frames of at most 16 rows (numpy's quicksort is an    *)
(* insertion sort there; pandas reverses before and after a descending     *)
(* sort, which keeps equal keys in their original order).                  *)
(***************************************************************************)
Frac(n, d) == [n |-> n, d |-> d]
FracLess(a, b) == a.n * b.d < b.n * a.d

Min(S) == CHOOSE x \in S : \A y \in S : x <= y

InsertAt(s, pos, x) == SubSeq(s, 1, pos - 1) \o <<x>> \o SubSeq(s, pos, Len(s))

\* x goes before the first element whose key is greater: ascending, stable
InsertAscending(sorted, x) ==
    LET later == {i \in DOMAIN sorted : FracLess(x.key, sorted[i].key)}
    IN  InsertAt(sorted, IF later = {} THEN Len(sorted) + 1 ELSE Min(later), x)

\* x goes before the first element whose key is smaller: descending, stable
InsertDescending(sorted, x) ==
    LET later == {i \in DOMAIN sorted : FracLess(sorted[i].key, x.key)}
    IN  InsertAt(sorted, IF later = {} THEN Len(sorted) + 1 ELSE Min(later), x)

RECURSIVE SortAscending(_)
SortAscending(s) ==
    IF s = <<>> THEN <<>>
    ELSE InsertAscending(SortAscending(SubSeq(s, 1, Len(s) - 1)), s[Len(s)])

RECURSIVE SortDescending(_)
SortDescending(s) ==
    IF s = <<>> THEN <<>>
    ELSE InsertDescending(SortDescending(SubSeq(s, 1, Len(s) - 1)), s[Len(s)])

\* a mutant of the descending sort: the ascending sort, reversed
SortedKeysAscendingReversed(keyed) ==
    LET s == SortAscending([i \in DOMAIN keyed |-> [key |-> keyed[i].val, k |-> keyed[i].k]])
    IN  [i \in DOMAIN s |-> s[Len(s) + 1 - i].k]

\* sorted(d, key=d.get, reverse=True) for a dict whose values are fractions
SortedKeysReverse(keyed) ==
    LET s == SortDescending([i \in DOMAIN keyed |-> [key |-> keyed[i].val, k |-> keyed[i].k]])
    IN  [i \in DOMAIN s |-> s[i].k]

\* {key: rank + 1 for rank, key in enumerate(sorted_keys)}
EnumerateRanks(sorted_keys) == [i \in DOMAIN sorted_keys |-> Item(sorted_keys[i], i)]

(***************************************************************************)
(* rank_dict(d): the ranks of one method's scores and what it logs.        *)
(***************************************************************************)
\* method_weights: lower-cased keys, numeric values only (lines 63-72)
RECURSIVE MethodWeightsFrom(_)
MethodWeightsFrom(items) ==
    IF items = <<>> THEN <<>>
    ELSE LET rest == MethodWeightsFrom(SubSeq(items, 1, Len(items) - 1))
             last == items[Len(items)]
         IN  IF isinstance_number(last.val)
             THEN Put(rest, lower(last.k), last.val.v)
             ELSE rest

method_weights(aggregation_weights) ==
    IF isinstance_dict(aggregation_weights)
    THEN MethodWeightsFrom(aggregation_weights.items)
    ELSE <<>>

\* w for one sub-method (lines 77-79)
SubMethodWeight(mw, sub_method) ==
    LET w == Get(mw, lower(sub_method), 1)
    IN  IF w <= 0 THEN 1 ELSE w

\* the inner loop over one sub-method's features (lines 80-83);
\* acc is feature -> [s |-> sum of w*score, w |-> sum of w]
RECURSIVE AccumulateFeatures(_, _, _)
AccumulateFeatures(acc, feats, w) ==
    IF feats = <<>> THEN acc
    ELSE LET f == Head(feats)
             old == Get(acc, f.k, [s |-> 0, w |-> 0])
             new == IF isinstance_number(f.val)
                    THEN Put(acc, f.k, [s |-> old.s + w * f.val.v, w |-> old.w + w])
                    ELSE acc
         IN  AccumulateFeatures(new, Tail(feats), w)

\* the outer loop over the sub-methods (lines 74-83)
RECURSIVE AccumulateSubMethods(_, _, _)
AccumulateSubMethods(acc, subs, mw) ==
    IF subs = <<>> THEN acc
    ELSE LET sm == Head(subs)
             new == IF isinstance_dict(sm.val)
                    THEN AccumulateFeatures(acc, sm.val.items, SubMethodWeight(mw, sm.k))
                    ELSE acc
         IN  AccumulateSubMethods(new, Tail(subs), mw)

\* a mutant of the aggregation: the weighted sum, not divided by the weights
AggregatedAsSum(d, aggregation_weights) ==
    LET acc == AccumulateSubMethods(<<>>, d.items, method_weights(aggregation_weights))
        pos == SelectSeq(acc, LAMBDA e : e.val.w > 0)
    IN  [i \in DOMAIN pos |-> Item(pos[i].k, Frac(pos[i].val.s, 1))]

\* aggregated: feature -> weighted mean, in first-appearance order (lines 86-89)
Aggregated(d, aggregation_weights) ==
    LET acc == AccumulateSubMethods(<<>>, d.items, method_weights(aggregation_weights))
        pos == SelectSeq(acc, LAMBDA e : e.val.w > 0)
    IN  [i \in DOMAIN pos |-> Item(pos[i].k, Frac(pos[i].val.s, pos[i].val.w))]

\* a mutant of the flat branch: sorted() without reverse=True
RankFlatAscending(d) ==
    LET s == SortAscending([i \in DOMAIN d.items |->
                 [key |-> Frac(d.items[i].val.v, 1), k |-> d.items[i].k]])
    IN  EnumerateRanks([i \in DOMAIN s |-> s[i].k])

\* the flat branch (lines 49-51)
RankFlat(d) ==
    EnumerateRanks(SortedKeysReverse(
        [i \in DOMAIN d.items |-> Item(d.items[i].k, Frac(d.items[i].val.v, 1))]))

rank_dict(d, aggregation_weights) ==
    IF ~isinstance_dict(d)
    THEN [ranks |-> <<>>, log |-> <<"error: expected a dictionary">>]
    ELSE IF \A i \in DOMAIN d.items : isinstance_number(d.items[i].val)
    THEN [ranks |-> RankFlat(d), log |-> <<>>]
    ELSE IF \E i \in DOMAIN d.items : isinstance_dict(d.items[i].val)
    THEN LET aggregated == Aggregated(d, aggregation_weights)
         IN  IF aggregated = <<>>
             THEN [ranks |-> <<>>, log |-> <<"warning: nested dict, no numeric scores">>]
             ELSE [ranks |-> EnumerateRanks(SortedKeysReverse(aggregated)), log |-> <<>>]
    ELSE [ranks |-> <<>>, log |-> <<"error: unsupported structure for ranking">>]


(***************************************************************************)
(* The frame of one class pair: pd.DataFrame(ranked_data), dropna,         *)
(* reset_index/rename and the "overall score" column (lines 127-134).      *)
(* A frame is [columns, rows]; a row is [name, ranks, overall, score],     *)
(* ranks aligned with the method columns.                                  *)
(***************************************************************************)
\* the missing value pandas puts where a method has no rank for a feature
NaN == -1

feature_type == "microRNA"

RECURSIVE AppendNew(_, _)
AppendNew(acc, keys) ==
    IF keys = <<>> THEN acc
    ELSE AppendNew(IF Head(keys) \in Range(acc) THEN acc ELSE Append(acc, Head(keys)),
                   Tail(keys))

\* the index of the frame: the features in order of first appearance
RECURSIVE UnionIndex(_)
UnionIndex(ranked_data) ==
    IF ranked_data = <<>> THEN <<>>
    ELSE AppendNew(UnionIndex(SubSeq(ranked_data, 1, Len(ranked_data) - 1)),
                   Keys(ranked_data[Len(ranked_data)].val))

RECURSIVE SeqSum(_)
SeqSum(s) == IF s = <<>> THEN 0 ELSE Head(s) + SeqSum(Tail(s))

RECURSIVE SeqProduct(_)
SeqProduct(s) == IF s = <<>> THEN 1 ELSE Head(s) * SeqProduct(Tail(s))

DataFrame(ranked_data) ==
    LET index == UnionIndex(ranked_data)
    IN  [columns |-> Keys(ranked_data),
         rows |-> [i \in DOMAIN index |->
                     [name |-> index[i],
                      ranks |-> [m \in DOMAIN ranked_data |->
                                   Get(ranked_data[m].val, index[i], NaN)],
                      overall |-> NaN,
                      score |-> NaN]]]

\* a mutant of dropna: how="all" keeps a row that has any rank
dropna_all(df) ==
    [df EXCEPT !.rows = SelectSeq(df.rows,
                          LAMBDA r : \E m \in DOMAIN r.ranks : r.ranks[m] # NaN)]

dropna(df) ==
    [df EXCEPT !.rows = SelectSeq(df.rows,
                          LAMBDA r : \A m \in DOMAIN r.ranks : r.ranks[m] # NaN)]

\* ranked_data_df["overall score"] = ranked_data_df[rank_cols].sum(axis=1)
WithOverallScore(df) ==
    [columns |-> <<feature_type>> \o df.columns \o <<"overall score">>,
     rows |-> [i \in DOMAIN df.rows |-> [df.rows[i] EXCEPT !.overall = SeqSum(df.rows[i].ranks)]]]

\* rank_cols = ranked_data_df.columns[1:], taken before "overall score" is added
rank_cols(df) == SubSeq(df.columns, 2, Len(df.columns) - 1)

RankedDataFrame(ranked_data) == WithOverallScore(dropna(DataFrame(ranked_data)))

(***************************************************************************)
(* The fusion orders (lines 157-184).  sort_values is stable on these      *)
(* frames; the "_score" column is assigned, sorted on and dropped.         *)
(***************************************************************************)
\* df.assign(_score=scores): scores is aligned with the rows
assign_score(df, scores) ==
    [columns |-> Append(df.columns, "_score"),
     rows |-> [i \in DOMAIN df.rows |-> [df.rows[i] EXCEPT !.score = scores[i]]]]

\* a mutant of the drop: the "_score" column stays in the frame
keep_score(df) == df

\* .drop(columns=["_score"])
drop_score(df) ==
    [columns |-> SelectSeq(df.columns, LAMBDA c : c # "_score"),
     rows |-> [i \in DOMAIN df.rows |-> [df.rows[i] EXCEPT !.score = NaN]]]

\* df.sort_values(by=by, ascending=ascending), by one of "_score", "overall score"
sort_values(df, by, ascending) ==
    LET keyed == [i \in DOMAIN df.rows |->
                    [key |-> Frac(IF by = "_score" THEN df.rows[i].score
                                  ELSE df.rows[i].overall, 1),
                     row |-> df.rows[i]]]
        s == IF ascending THEN SortAscending(keyed) ELSE SortDescending(keyed)
    IN  [df EXCEPT !.rows = [i \in DOMAIN s |-> s[i].row]]

\* (1.0 / (rrf_k + rank)).sum(axis=1), as the exact numerator over the common
\* denominator (rrf_k+1)*...*(rrf_k+MaxFeatures): the order of the quotients
RrfProductExcept(k, r) ==
    SeqProduct([j \in 1..MaxFeatures |-> IF j = r THEN 1 ELSE k + j])

\* a mutant of the RRF score: the sum of the ranks
rrf_score_as_sum(row, k) == SeqSum(row.ranks)

rrf_score(row, k) ==
    SeqSum([m \in DOMAIN row.ranks |-> RrfProductExcept(k, row.ranks[m])])

\* np.exp(np.log(ranks).mean(axis=1)): ordered as the product of the ranks
rank_product(row) == SeqProduct(row.ranks)

\* weights = aggregation_weights or {}
WeightsOrEmpty(aggregation_weights) ==
    IF aggregation_weights.t = "none"
       \/ (aggregation_weights.t = "dict" /\ aggregation_weights.items = <<>>)
       \/ (aggregation_weights.t = "list" /\ aggregation_weights.v = 0)
    THEN Dict(<<>>)
    ELSE aggregation_weights

\* weights.get(str(c).lower(), 1.0)
BordaWeight(weights, c) == Get(weights.items, lower(c), Num(1))

weighted_borda(row, cols, weights) ==
    SeqSum([m \in DOMAIN row.ranks |-> BordaWeight(weights, cols[m]).v * row.ranks[m]])

\* weights.get on a non-dict, or np.array(..., dtype=float) on a non-number
BordaRaises(cols, aggregation_weights) ==
    LET weights == WeightsOrEmpty(aggregation_weights)
    IN  \/ ~isinstance_dict(weights)
        \/ \E m \in DOMAIN cols : ~isinstance_number(BordaWeight(weights, cols[m]))

\* a mutant of the classic order: ascending=False
SortByOverallDescending(df) == sort_values(df, "overall score", FALSE)

\* sort_values(by="overall score", ascending=True)
SortByOverall(df) == sort_values(df, "overall score", TRUE)

RowScores(df, agg, weights, k) ==
    [i \in DOMAIN df.rows |->
        CASE agg = "rrf" -> rrf_score(df.rows[i], k)
          [] agg = "rank_product" -> rank_product(df.rows[i])
          [] OTHER -> weighted_borda(df.rows[i], rank_cols(df), weights)]

\* a mutant of the score order: ascending=True for every algorithm
SortByScoreAscending(df, agg, weights, k) ==
    drop_score(sort_values(assign_score(df, RowScores(df, agg, weights, k)),
                           "_score", TRUE))

\* assign(_score=...).sort_values(by="_score", ascending=...).drop(columns=["_score"])
SortByScore(df, agg, weights, k) ==
    drop_score(sort_values(assign_score(df, RowScores(df, agg, weights, k)),
                           "_score", agg # "rrf"))

\* the try block: the ordered frame and whether the except branch ran
Fuse(df, agg, aggregation_weights, k) ==
    CASE agg = "rrf" -> [df |-> SortByScore(df, agg, None, k), raised |-> FALSE]
      [] agg = "rank_product" -> [df |-> SortByScore(df, agg, None, k), raised |-> FALSE]
      [] agg = "weighted_borda" ->
           IF BordaRaises(rank_cols(df), aggregation_weights)
           THEN [df |-> SortByOverall(df), raised |-> TRUE]
           ELSE [df |-> SortByScore(df, agg, WeightsOrEmpty(aggregation_weights), k),
                 raised |-> FALSE]
      [] agg = "sum" -> [df |-> SortByOverall(df), raised |-> FALSE]
      [] OTHER -> [df |-> SortByOverall(df), raised |-> FALSE]

(***************************************************************************)
(* The run label and the paths of the ranking files (lines 186-198).       *)
(***************************************************************************)
Letters == {"a","b","c","d","e","f","g","h","i","j","k","l","m","n","o","p","q","r",
            "s","t","u","v","w","x","y","z","A","B","C","D","E","F","G","H","I","J",
            "K","L","M","N","O","P","Q","R","S","T","U","V","W","X","Y","Z"}
Digits == {"0","1","2","3","4","5","6","7","8","9"}
\* the characters the pattern [^A-Za-z0-9._=+\-] does not match
AllowedChars == Letters \cup Digits \cup {".", "=", "+", "-"}

\* a mutant of the substitution: the pattern without its "+", one '_' per character
SanitizeEachChar(label) ==
    [i \in DOMAIN label |-> IF label[i] \in AllowedChars THEN label[i] ELSE "_"]

\* re.sub(r'[^A-Za-z0-9._=+\-]+', '_', label): one '_' per maximal run
RECURSIVE SanitizeFrom(_, _)
SanitizeFrom(label, i) ==
    IF i > Len(label) THEN <<>>
    ELSE IF label[i] \in AllowedChars THEN <<label[i]>> \o SanitizeFrom(label, i + 1)
    ELSE IF i > 1 /\ label[i - 1] \notin AllowedChars THEN SanitizeFrom(label, i + 1)
    ELSE <<"_">> \o SanitizeFrom(label, i + 1)

Sanitize(label) == SanitizeFrom(label, 1)

\* a path is the sequence of its components; a component is a fixed name or a label
Comp(name) == [name |-> name, label |-> <<>>]
LabelComp(label) == [name |-> "", label |-> label]

outdir == "outputs"
csv_name == "ranked_features_df.csv"

\* what the file system makes of "." and ".." components
RECURSIVE Resolve(_)
Resolve(path) ==
    IF path = <<>> THEN <<>>
    ELSE LET front == Resolve(SubSeq(path, 1, Len(path) - 1))
             last == path[Len(path)]
         IN  IF last.label = <<".">> THEN front
             ELSE IF last.label = <<".", ".">>
                  THEN (IF front = <<>> THEN <<>> ELSE SubSeq(front, 1, Len(front) - 1))
             ELSE Append(front, last)

\* os.path.join(outdir, "feature_ranking", class_pair)
pair_dir(class_pair) == <<Comp(outdir), Comp("feature_ranking"), Comp(class_pair)>>
\* os.path.join(pair_dir, safe_label)
labeled_dir(class_pair, label) == Append(pair_dir(class_pair), LabelComp(label))
CanonicalCsv(class_pair) == Resolve(Append(pair_dir(class_pair), Comp(csv_name)))
LabeledCsv(class_pair, label) == Resolve(Append(labeled_dir(class_pair, label), Comp(csv_name)))

\* the files are a set of [path, content]; to_csv replaces the file at its path
NoFile == [columns |-> <<>>, rows |-> <<>>]
OldFile == [columns |-> <<"an earlier run">>, rows |-> <<>>]
Exists(files, path) == \E f \in files : f.path = path
ReadFile(files, path) ==
    IF Exists(files, path) THEN (CHOOSE f \in files : f.path = path).content ELSE NoFile
to_csv(files, path, df) ==
    {f \in files : f.path # path} \cup {[path |-> path, content |-> df]}

(***************************************************************************)
(* The process-wide overrides (lines 139-155).                             *)
(***************************************************************************)
Unset == [state |-> "unset", val |-> None]
EnvText(val) == [state |-> "text", val |-> val]
Garbage == [state |-> "garbage", val |-> None]

\* aggregation after "if not aggregation and env_agg"
ResolveAggregation(agg, e) ==
    IF agg = "" /\ e.FEATURE_RANK_AGGREGATION # "" THEN e.FEATURE_RANK_AGGREGATION ELSE agg

\* aggregation_weights after lines 143-149; json.loads raises on garbage
ResolveWeights(weights, e) ==
    IF weights.t = "none" /\ e.FEATURE_RANK_WEIGHTS.state = "text"
    THEN e.FEATURE_RANK_WEIGHTS.val
    ELSE weights

\* rrf_k after int(os.getenv("FEATURE_RANK_RRF_K", str(rrf_k))); int raises on garbage
ResolveRrfK(k, e) ==
    IF e.FEATURE_RANK_RRF_K.state = "text" THEN e.FEATURE_RANK_RRF_K.val.v ELSE k

\* agg = (aggregation or "rrf").lower()
AggName(agg) == lower(IF agg = "" THEN "rrf" ELSE agg)

NoEnv == [FEATURE_RANK_AGGREGATION |-> "", FEATURE_RANK_WEIGHTS |-> Unset,
          FEATURE_RANK_RRF_K |-> Unset]

\* the default of the rrf_k parameter
DefaultRrfK == 60
\* the default of the num_top_features parameter
DefaultNumTop == 20

(***************************************************************************)
(* State of one call of feature_rank.                                      *)
(***************************************************************************)
VARIABLES
    top_features,        \* the input: class pair -> method -> scores, as items
    num_top_features,
    subdir_label,        \* the run label, a sequence of characters
    args,                \* aggregation, aggregation_weights and rrf_k as passed
    env,                 \* the process-wide overrides
    aggregation,         \* the three locals the loop body reassigns
    aggregation_weights,
    rrf_k,
    pc,                  \* "loop", "fuse", "persist", "done"
    idx,                 \* position of the loop in top_features
    ranked_data,         \* method -> ranks of the current class pair
    ranked_data_df,
    ranked_for_output,
    safe_label,
    all_top_features,
    result,              \* the returned list
    files,               \* the ranking files on disk
    log,                 \* error and warning entries, oldest first
    run,                 \* 1 in the first call, 2 when the caller has called again
    first_run            \* what the first call returned and left on disk

\* feature_importances.json and the analysis runs that merged into it
VARIABLES
    store,               \* the file: absent, parsable text or unparsable
    initial_store,       \* the file before the first run
    merged,              \* the runs so far, oldest first: what each one merged
    model_reports        \* model_reports.json in the output directory of each class pair

\* one training run: Classification.initiate_model_trainer and the
\* evaluate_models call it makes
VARIABLES
    self,                \* the attributes of the Classification object that are read
    param,               \* the keys of the hyperparameter grids passed to evaluate_models
    return_models,
    outcomes,            \* what training and the disk will yield: the mean CV-F1 of
                         \* each model (in hundredths), whether the pipeline search
                         \* raises, which writes fail
    tpc,                 \* the position of the run
    model_i,             \* position of the loop over the models
    report,              \* evaluate_models: model -> report, in training order
    searches,            \* the grid searches fitted, oldest first
    fits,                \* the calls that fit or use each model, oldest first
    model_report,        \* what evaluate_models returned
    best_model_name,
    best_model_score,
    trained_models_info, \* the handles returned with return_models
    artifacts,           \* the files the run has written
    error                \* the message of the exception the run raised, "" if none

\* one invocation of services/recompute_ranking.py
VARIABLES
    argv,                \* the command line: class pair, aggregation, weights, rrf_k, label
    rpc,                 \* the position of the script
    data,                \* feature_importances.json as loaded
    exit_code,
    printed,             \* the path the script prints
    files_before         \* the ranking files at the invocation

\* processes that read, update and rewrite feature_importances.json at the
\* same time
VARIABLES
    procs,               \* per process: what it merges, its position, what it read
    events               \* the reads, truncations and writes so far, oldest first

vars == <<top_features, num_top_features, subdir_label, args, env, aggregation,
          aggregation_weights, rrf_k, pc, idx, ranked_data, ranked_data_df,
          ranked_for_output, safe_label, all_top_features, result, files, log,
          run, first_run, store, initial_store, merged, model_reports,
          self, param, return_models, outcomes, tpc, model_i, report, searches, fits,
          model_report, best_model_name, best_model_score, trained_models_info,
          artifacts, error, argv, rpc, data, exit_code, printed, files_before,
          procs, events>>

\* the variables of a call of feature_rank, but for the disk and the log
call_vars == <<run, first_run, top_features, num_top_features, subdir_label, args, env,
               aggregation, aggregation_weights, rrf_k, pc, idx, ranked_data,
               ranked_data_df, ranked_for_output, safe_label, all_top_features, result>>
importances_vars == <<store, initial_store, merged>>
store_vars == <<importances_vars, model_reports>>
train_config == <<self, param, return_models, outcomes>>
train_vars == <<train_config, tpc, model_i, report, searches, fits, model_report,
                best_model_name, best_model_score, trained_models_info, artifacts, error>>
recompute_vars == <<argv, rpc, data, exit_code, printed, files_before>>
race_vars == <<procs, events>>
other_vars == <<store_vars, train_vars, recompute_vars, race_vars>>

EmptyFrame == [columns |-> <<>>, rows |-> <<>>]

NoRun == [result |-> <<>>, files |-> {}]

\* the state at the call: the parameters bound, nothing processed yet
Call(tf, ntop, label, agg, weights, k, e, disk) ==
    /\ run = 1
    /\ first_run = NoRun
    /\ top_features = tf
    /\ num_top_features = ntop
    /\ subdir_label = label
    /\ args = [aggregation |-> agg, aggregation_weights |-> weights, rrf_k |-> k]
    /\ env = e
    /\ aggregation = agg
    /\ aggregation_weights = weights
    /\ rrf_k = k
    /\ pc = "loop"
    /\ idx = 1
    /\ ranked_data = <<>>
    /\ ranked_data_df = EmptyFrame
    /\ ranked_for_output = EmptyFrame
    /\ safe_label = <<>>
    /\ all_top_features = <<>>
    /\ result = <<>>
    /\ files = disk
    /\ log = <<>>

(***************************************************************************)
(* One iteration of the loop over the class pairs, in three steps.         *)
(***************************************************************************)
\* lines 113-120: rank every mapping-valued analysis, skipping the others
RECURSIVE RankAll(_, _, _)
RankAll(analyses, weights, class_pair) ==
    IF analyses = <<>> THEN [data |-> <<>>, log |-> <<>>]
    ELSE LET front == RankAll(SubSeq(analyses, 1, Len(analyses) - 1), weights, class_pair)
             last == analyses[Len(analyses)]
             r == rank_dict(last.val, weights)
         IN  IF ~isinstance_dict(last.val)
             THEN [data |-> front.data,
                   log |-> Append(front.log, "error: analysis is not a dictionary")]
             ELSE [data |-> Put(front.data, last.k, r.ranks),
                   log |-> front.log \o r.log]

\* lines 106-134
RankStep ==
    /\ pc = "loop"
    /\ idx <= Len(top_features)
    /\ LET class_pair == top_features[idx].k
           analysis_data == top_features[idx].val
           r == RankAll(analysis_data.items, aggregation_weights, class_pair)
       IN  IF ~isinstance_dict(analysis_data)
           THEN /\ log' = Append(log, "error: class pair is not a dictionary")
                /\ idx' = idx + 1
                /\ UNCHANGED <<pc, ranked_data, ranked_data_df>>
           ELSE IF r.data = <<>>
           THEN /\ log' = Append(log \o r.log, "warning: no valid analysis data")
                /\ idx' = idx + 1
                /\ ranked_data' = r.data
                /\ UNCHANGED <<pc, ranked_data_df>>
           ELSE /\ log' = log \o r.log
                /\ ranked_data' = r.data
                /\ ranked_data_df' = RankedDataFrame(r.data)
                /\ pc' = "fuse"
                /\ UNCHANGED idx
    /\ UNCHANGED <<run, first_run>>
    /\ UNCHANGED other_vars
    /\ UNCHANGED <<top_features, num_top_features, subdir_label, args, env, aggregation,
                   aggregation_weights, rrf_k, ranked_for_output, safe_label,
                   all_top_features, result, files>>

\* lines 136-184
FuseStep ==
    /\ pc = "fuse"
    /\ aggregation' = ResolveAggregation(aggregation, env)
    /\ aggregation_weights' = ResolveWeights(aggregation_weights, env)
    /\ rrf_k' = ResolveRrfK(rrf_k, env)
    /\ LET r == Fuse(ranked_data_df, AggName(aggregation'), aggregation_weights', rrf_k')
       IN  /\ ranked_for_output' = r.df
           /\ log' = IF r.raised THEN Append(log, "error: aggregation failed, falling back to sum")
                     ELSE log
    /\ pc' = "persist"
    /\ UNCHANGED <<run, first_run>>
    /\ UNCHANGED other_vars
    /\ UNCHANGED <<top_features, num_top_features, subdir_label, args, env, idx,
                   ranked_data, ranked_data_df, safe_label, all_top_features, result, files>>

\* ranked_for_output.head(num_top_features)[feature_type].to_list()
TopN(df, n) ==
    LET k == IF n < Len(df.rows) THEN n ELSE Len(df.rows)
    IN  [i \in 1..k |-> df.rows[i].name]

\* the file the class pair's ranking is written to (lines 191-198)
CsvPath(class_pair, label) ==
    IF label # <<>> THEN LabeledCsv(class_pair, Sanitize(label))
    ELSE CanonicalCsv(class_pair)

\* lines 186-205
PersistStep ==
    /\ pc = "persist"
    /\ LET class_pair == top_features[idx].k
       IN  /\ safe_label' = IF subdir_label # <<>> THEN Sanitize(subdir_label) ELSE safe_label
           /\ files' = to_csv(files, CsvPath(class_pair, subdir_label), ranked_for_output)
           /\ all_top_features' = Put(all_top_features, class_pair,
                                      TopN(ranked_for_output, num_top_features))
    /\ idx' = idx + 1
    /\ pc' = "loop"
    /\ UNCHANGED <<run, first_run>>
    /\ UNCHANGED other_vars
    /\ UNCHANGED <<top_features, num_top_features, subdir_label, args, env, aggregation,
                   aggregation_weights, rrf_k, ranked_data, ranked_data_df,
                   ranked_for_output, result, log>>

\* lines 207-212
ReturnStep ==
    /\ pc = "loop"
    /\ idx > Len(top_features)
    /\ result' = IF Len(all_top_features) > 0 THEN all_top_features[1].val ELSE <<>>
    /\ pc' = "done"
    /\ UNCHANGED <<run, first_run>>
    /\ UNCHANGED other_vars
    /\ UNCHANGED <<top_features, num_top_features, subdir_label, args, env, aggregation,
                   aggregation_weights, rrf_k, idx, ranked_data, ranked_data_df,
                   ranked_for_output, safe_label, all_top_features, files, log>>

Next == RankStep \/ FuseStep \/ PersistStep \/ ReturnStep

(***************************************************************************)
(* The caller calls feature_rank a second time with the same arguments,    *)
(* under the same overrides and on the disk the first call left.           *)
(***************************************************************************)
\* a mutant of the second call: the locals the first call reassigned are kept
CallAgainKeepingLocals ==
    /\ pc = "done"
    /\ run = 1
    /\ run' = 2
    /\ first_run' = [result |-> result, files |-> files]
    /\ pc' = "loop"
    /\ idx' = 1
    /\ ranked_data' = <<>>
    /\ ranked_data_df' = EmptyFrame
    /\ ranked_for_output' = EmptyFrame
    /\ safe_label' = <<>>
    /\ all_top_features' = <<>>
    /\ result' = <<>>
    /\ UNCHANGED other_vars
    /\ UNCHANGED <<top_features, num_top_features, subdir_label, args, env, files, log,
                   aggregation, aggregation_weights, rrf_k>>

\* the parameters are bound afresh to the values passed (lines 7-14)
CallAgain ==
    /\ pc = "done"
    /\ run = 1
    /\ run' = 2
    /\ first_run' = [result |-> result, files |-> files]
    /\ aggregation' = args.aggregation
    /\ aggregation_weights' = args.aggregation_weights
    /\ rrf_k' = args.rrf_k
    /\ pc' = "loop"
    /\ idx' = 1
    /\ ranked_data' = <<>>
    /\ ranked_data_df' = EmptyFrame
    /\ ranked_for_output' = EmptyFrame
    /\ safe_label' = <<>>
    /\ all_top_features' = <<>>
    /\ result' = <<>>
    /\ UNCHANGED other_vars
    /\ UNCHANGED <<top_features, num_top_features, subdir_label, args, env, files, log>>

NextTwice == RankStep \/ FuseStep \/ PersistStep \/ ReturnStep \/ CallAgain

(***************************************************************************)
(* feature_importances.json: every analysis run reads the whole file,      *)
(* updates the mapping in memory and writes the whole file back            *)
(* (statistical_tests.py 222-249, model_explanation.py 249-273,            *)
(* classification.py 396-434).                                             *)
(***************************************************************************)
NoStore == [state |-> "absent", val |-> Dict(<<>>)]
StoreText(d) == [state |-> "text", val |-> d]
UnparsableStore == [state |-> "garbage", val |-> Dict(<<>>)]

\* existing_data after the read: {} when the file is absent or does not parse
existing_data(s) == IF s.state = "text" THEN s.val ELSE Dict(<<>>)

\* if key not in d: d[key] = {}
SetDefault(items, key) ==
    IF key \in KeySet(items) THEN items ELSE Put(items, key, Dict(<<>>))

\* for feature, value in scores.items(): d[feature] = float(value)
RECURSIVE PutEach(_, _)
PutEach(items, scores) ==
    IF scores = <<>> THEN items
    ELSE PutEach(Put(items, Head(scores).k, Head(scores).val), Tail(scores))

\* a mutant of the loop over the analyses: the scores of an analysis replace
\* the mapping the store holds for it
RECURSIVE MergeAnalysesReplacing(_, _)
MergeAnalysesReplacing(items, tf) ==
    IF tf = <<>> THEN items
    ELSE MergeAnalysesReplacing(Put(items, Head(tf).k, Head(tf).val), Tail(tf))

\* for a in self.top_features: the scores of each analysis are written into
\* the mapping the store holds for it, created empty when missing
RECURSIVE MergeAnalyses(_, _)
MergeAnalyses(items, tf) ==
    IF tf = <<>> THEN items
    ELSE LET a == Head(tf).k
             held == SetDefault(items, a)
             scores == PutEach(Get(held, a, None).items, Head(tf).val.items)
         IN  MergeAnalyses(Put(held, a, Dict(scores)), Tail(tf))

\* statistical_tests.py 238-246: class pair -> analysis -> feature
MergeStatistical(existing, class_pair, tf) ==
    LET pairs == SetDefault(existing.items, class_pair)
        held == Get(pairs, class_pair, None).items
    IN  Dict(Put(pairs, class_pair, Dict(MergeAnalyses(held, tf))))

\* model_explanation.py 261-270: class pair -> model -> analysis -> feature
MergeExplanation(existing, class_pair, model_key, tf) ==
    LET pairs == SetDefault(existing.items, class_pair)
        held == SetDefault(Get(pairs, class_pair, None).items, model_key)
        analyses == MergeAnalyses(Get(held, model_key, None).items, tf)
    IN  Dict(Put(pairs, class_pair, Dict(Put(held, model_key, Dict(analyses)))))

xgb_key == "xgbclassifier"
rf_key == "random forest"

\* classification.py 423
ImportanceKey(model_name) ==
    IF lower(model_name) = xgb_key THEN "xgb_feature_importance"
    ELSE "randomforest_feature_importance"

\* classification.py 412-428: class pair -> model key -> feature
MergeBuiltIn(existing, class_pair, model_name, importances) ==
    LET pairs == SetDefault(existing.items, class_pair)
        model_key == ImportanceKey(model_name)
        held == SetDefault(Get(pairs, class_pair, None).items, model_key)
        scores == PutEach(Get(held, model_key, None).items, importances.items)
    IN  Dict(Put(pairs, class_pair, Dict(Put(held, model_key, Dict(scores)))))

\* the loop over the trained models (classification.py 372-434): the models
\* with built-in importances merge them, one read and one write each
RECURSIVE MergeTrained(_, _, _)
MergeTrained(existing, class_pair, trained) ==
    IF trained = <<>> THEN existing
    ELSE MergeTrained(
             IF lower(Head(trained).k) \in {xgb_key, rf_key}
             THEN MergeBuiltIn(existing, class_pair, Head(trained).k, Head(trained).val)
             ELSE existing,
             class_pair, Tail(trained))

\* the characters of the names that go into the run labels
NameChars ==
    ("anova" :> <<"a", "n", "o", "v", "a">>) @@ ("t_test" :> <<"t", "_", "t", "e", "s", "t">>)
    @@ ("shap" :> <<"s", "h", "a", "p">>) @@ ("lime" :> <<"l", "i", "m", "e">>)
    @@ ("xgbclassifier" :> <<"x", "g", "b", "c", "l", "a", "s", "s", "i", "f", "i", "e", "r">>)
    @@ ("random forest" :> <<"r", "a", "n", "d", "o", "m", " ", "f", "o", "r", "e", "s", "t">>)
\* the analysis names in the order sorted() gives them
SortedAnalyses == <<"anova", "lime", "shap", "t_test">>

RECURSIVE JoinPlus(_)
JoinPlus(names) ==
    IF names = <<>> THEN <<>>
    ELSE IF Len(names) = 1 THEN NameChars[names[1]]
    ELSE NameChars[names[1]] \o <<"+">> \o JoinPlus(Tail(names))

\* "+".join(sorted(self.top_features.keys()))
label_analyses(tf) == JoinPlus(SelectSeq(SortedAnalyses, LAMBDA a : a \in KeySet(tf)))

\* statistical_tests.py 257-258
StatisticalLabel(tf) ==
    IF label_analyses(tf) = <<>> THEN <<"m", "e", "t", "h", "o", "d", "=", "s", "t", "a", "t", "i", "s", "t", "i", "c", "a", "l", "_", "t", "e", "s", "t", "s">>
    ELSE <<"m", "e", "t", "h", "o", "d", "=", "s", "t", "a", "t", "i", "s", "t", "i", "c", "a", "l", "_", "t", "e", "s", "t", "s">> \o <<",", "a", "n", "a", "l", "y", "s", "i", "s", "=">> \o label_analyses(tf)

\* model_explanation.py 281-287
ExplanationLabel(model_key, tf) ==
    IF label_analyses(tf) = <<>> THEN <<"m", "o", "d", "e", "l", "=">> \o NameChars[model_key]
    ELSE <<"m", "o", "d", "e", "l", "=">> \o NameChars[model_key] \o <<",", "a", "n", "a", "l", "y", "s", "i", "s", "=">> \o label_analyses(tf)

\* feature_rank(top_features={class_pair: tf}, subdir_label=label) with the
\* defaults of its other parameters: the ranking files after the call
RankedFiles(disk, class_pair, tf, label, e) ==
    LET r == RankAll(tf, None, class_pair)
        fused == Fuse(RankedDataFrame(r.data), AggName(ResolveAggregation("rrf", e)),
                      ResolveWeights(None, e), ResolveRrfK(DefaultRrfK, e))
    IN  IF r.data = <<>> THEN disk
        ELSE to_csv(disk, CsvPath(class_pair, label), fused.df)

\* what the call logs
RankedLog(class_pair, tf) ==
    LET r == RankAll(tf, None, class_pair)
    IN  IF r.data = <<>> THEN Append(r.log, "warning: no valid analysis data") ELSE r.log

MaxMerges == 3

\* the class pairs, the scores and the models of the runs
StorePairs == {"AD_Control", "AD_MCI"}
StatisticalRuns ==
    {<<>>,
     <<Item("anova", Dict(<<Item("f1", Num(2)), Item("f2", Num(1))>>))>>,
     <<Item("t_test", Dict(<<Item("f1", Num(1))>>))>>,
     <<Item("anova", Dict(<<Item("f2", Num(2)), Item("f3", Num(1))>>)),
       Item("t_test", Dict(<<Item("f2", Num(2)), Item("f3", Num(0))>>))>>}
ExplanationRuns ==
    {<<Item("shap", Dict(<<Item("f1", Num(2))>>))>>,
     <<Item("shap", Dict(<<Item("f1", Num(1)), Item("f2", Num(2))>>)),
       Item("lime", Dict(<<Item("f2", Num(1))>>))>>}
TrainedSets ==
    {<<Item("logistic regression", Dict(<<>>)),
       Item("xgbclassifier", Dict(<<Item("f1", Num(2)), Item("f2", Num(1))>>))>>,
     <<Item("random forest", Dict(<<Item("f1", Num(1)), Item("f2", Num(0))>>)),
       Item("xgbclassifier", Dict(<<Item("f1", Num(0)), Item("f2", Num(2))>>))>>}

\* StatisticalTestAnalysis.run_all_analyses (statistical_tests.py 205-267)
StatisticalRun ==
    /\ Len(merged) < MaxMerges
    /\ \E class_pair \in StorePairs, tf \in StatisticalRuns :
           /\ store' = StoreText(MergeStatistical(existing_data(store), class_pair, tf))
           /\ merged' = Append(merged, [kind |-> "statistical", class_pair |-> class_pair,
                                        model_key |-> "", scores |-> tf, report |-> <<>>])
           /\ files' = RankedFiles(files, class_pair, tf, StatisticalLabel(tf), env)
           /\ log' = log \o RankedLog(class_pair, tf)
    /\ UNCHANGED <<initial_store, model_reports, call_vars, train_vars, recompute_vars, race_vars>>

\* ModelExplanationAnalysis.run_all_analyses (model_explanation.py 227-290)
ExplanationRun ==
    /\ Len(merged) < MaxMerges
    /\ \E class_pair \in StorePairs, model_key \in {xgb_key, rf_key}, tf \in ExplanationRuns :
           /\ store' = StoreText(MergeExplanation(existing_data(store), class_pair,
                                                  model_key, tf))
           /\ merged' = Append(merged, [kind |-> "explanation", class_pair |-> class_pair,
                                        model_key |-> model_key, scores |-> tf,
                                        report |-> <<>>])
           /\ files' = RankedFiles(files, class_pair, tf, ExplanationLabel(model_key, tf), env)
           /\ log' = log \o RankedLog(class_pair, tf)
    /\ UNCHANGED <<initial_store, model_reports, call_vars, train_vars, recompute_vars, race_vars>>

\* a mutant of the update: the reports are appended to the document
UpdateReportsAppending(existing, reports) == Dict(existing.items \o reports)

\* existing_data.update(model_report) (classification.py 450)
UpdateReports(existing, reports) == Dict(PutEach(existing.items, reports))

\* the store and model_reports.json updates of one training run
\* (classification.py 372-454)
TrainingRun ==
    /\ Len(merged) < MaxMerges
    /\ \E class_pair \in StorePairs, trained \in TrainedSets, f1 \in {10, 80} :
           LET reports == [n \in DOMAIN trained |->
                              Item(trained[n].k, [cv_f1 |-> f1,
                                                  roc_auc_scores |-> "predict_proba"])]
           IN  /\ store' = StoreText(MergeTrained(existing_data(store), class_pair, trained))
               /\ model_reports' = [model_reports EXCEPT ![class_pair] =
                      StoreText(UpdateReports(existing_data(model_reports[class_pair]),
                                              reports))]
               /\ merged' = Append(merged, [kind |-> "training", class_pair |-> class_pair,
                                            model_key |-> "", scores |-> trained,
                                            report |-> reports])
    /\ UNCHANGED <<initial_store, call_vars, train_vars, recompute_vars, race_vars, files, log>>

NextStore == StatisticalRun \/ ExplanationRun \/ TrainingRun

(***************************************************************************)
(* Two analysis processes at the same feature_importances.json.  Each one  *)
(* reads the file, merges its scores in memory, opens the file for         *)
(* writing, which truncates it, and dumps its document; nothing locks the  *)
(* file (statistical_tests.py 227-249, model_explanation.py 250-273,       *)
(* classification.py 400-431).                                             *)
(***************************************************************************)
\* a mutant of the merge: the scores go into an empty document
MergeIntoEmpty(w, existing) ==
    CASE w.kind = "statistical" -> MergeStatistical(Dict(<<>>), w.class_pair, w.scores)
      [] w.kind = "explanation" ->
           MergeExplanation(Dict(<<>>), w.class_pair, w.model_key, w.scores)
      [] OTHER -> MergeTrained(Dict(<<>>), w.class_pair, w.scores)

\* the document a writer holds once it has merged its scores into what it read
MergeInto(w, existing) ==
    CASE w.kind = "statistical" -> MergeStatistical(existing, w.class_pair, w.scores)
      [] w.kind = "explanation" ->
           MergeExplanation(existing, w.class_pair, w.model_key, w.scores)
      [] OTHER -> MergeTrained(existing, w.class_pair, w.scores)

Event(p, step) == [proc |-> p, step |-> step]
Happened(p, step) == \E n \in DOMAIN events : events[n] = Event(p, step)
EventIndex(p, step) == CHOOSE n \in DOMAIN events : events[n] = Event(p, step)

\* json.load under "if os.path.exists", {} on JSONDecodeError, then the merge
ReadStore(p) ==
    /\ p \in DOMAIN procs
    /\ procs[p].pc = "read"
    /\ procs' = [procs EXCEPT ![p].existing_data = MergeInto(procs[p], existing_data(store)),
                              ![p].pc = "open"]
    /\ events' = Append(events, Event(p, "read"))
    /\ UNCHANGED <<store_vars, call_vars, train_vars, recompute_vars, files, log>>

\* open(json_path, "w"): the file is empty until the dump reaches it
OpenStore(p) ==
    /\ p \in DOMAIN procs
    /\ procs[p].pc = "open"
    /\ store' = UnparsableStore
    /\ procs' = [procs EXCEPT ![p].pc = "dump"]
    /\ events' = Append(events, Event(p, "open"))
    /\ UNCHANGED <<initial_store, merged, model_reports, call_vars, train_vars,
                   recompute_vars, files, log>>

\* another writer dumped since this one opened the file: this dump goes over
\* the text of the other from the start of the file
Overlaid(p) ==
    \E q \in DOMAIN procs :
        /\ q # p
        /\ Happened(q, "dump")
        /\ EventIndex(q, "dump") > EventIndex(p, "open")

\* json.dump(existing_data, f) and the close; a dump over a longer text leaves
\* the end of that text behind it.  The analyses then rank their own scores.
DumpStore(p) ==
    /\ p \in DOMAIN procs
    /\ procs[p].pc = "dump"
    /\ store' \in IF Overlaid(p)
                  THEN {StoreText(procs[p].existing_data), UnparsableStore}
                  ELSE {StoreText(procs[p].existing_data)}
    /\ procs' = [procs EXCEPT ![p].pc = "done"]
    /\ events' = Append(events, Event(p, "dump"))
    /\ LET w == procs[p]
           label == IF w.kind = "statistical" THEN StatisticalLabel(w.scores)
                    ELSE ExplanationLabel(w.model_key, w.scores)
       IN  IF w.kind = "training"
           THEN UNCHANGED <<files, log>>
           ELSE /\ files' = RankedFiles(files, w.class_pair, w.scores, label, env)
                /\ log' = log \o RankedLog(w.class_pair, w.scores)
    /\ UNCHANGED <<initial_store, merged, model_reports, call_vars, train_vars,
                   recompute_vars>>

NextRace == \E p \in {1, 2} : ReadStore(p) \/ OpenStore(p) \/ DumpStore(p)

(***************************************************************************)
(* One training run: Classification.initiate_model_trainer                 *)
(* (classification.py 312-562) and evaluate_models (utils.py 88-398).      *)
(* A mean CV-F1 is a number of hundredths.  What the estimators and the    *)
(* disk do is fixed at the start of the run in outcomes.                   *)
(***************************************************************************)
\* the keys of models_base, in its order (classification.py 336-346)
models_base ==
    <<"logistic regression", "random forest", "xgbclassifier", "decision tree",
      "gradient boosting", "catboosting classifier", "adaboost classifier",
      "mlpclassifier", "svc">>

\* the keys of the grids getparams() returns, in its order (utils.py 468-558)
getparams ==
    <<"Decision Tree", "Random Forest", "Gradient Boosting", "Logistic Regression",
      "XGBClassifier", "CatBoosting Classifier", "AdaBoost Classifier",
      "MLPClassifier", "SVC">>

\* models = {model_name: models_base[model_name] for model_name in self.model_list}
RECURSIVE ModelsOf(_)
ModelsOf(model_list) ==
    IF model_list = <<>> THEN <<>>
    ELSE AppendNew(ModelsOf(SubSeq(model_list, 1, Len(model_list) - 1)),
                   <<model_list[Len(model_list)]>>)
models == ModelsOf(self.model_list)

\* use_pipeline_cv (utils.py 148)
use_pipeline_cv == self.preprocessor # "None" /\ self.X_train_raw # "None"

NoKey == "None"

\* a mutant of the grid lookup: the names compared as they are
ParamKeyExact(grids, model_key) ==
    LET hits == {j \in DOMAIN grids : grids[j] = model_key}
    IN  IF hits = {} THEN NoKey ELSE grids[Min(hits)]

\* next((k for k in param.keys() if k.lower() == model_key.lower()), None)
ParamKey(grids, model_key) ==
    LET hits == {j \in DOMAIN grids : lower(grids[j]) = lower(model_key)}
    IN  IF hits = {} THEN NoKey ELSE grids[Min(hits)]

\* the exceptions a run can end with
KeyErrorRaised == "KeyError: model name not in models_base"
GridNotFound == "Hyperparameter grid not found for model"
TableWriteFailed == "writing the result table failed"
ReportsWriteFailed == "writing model_reports.json failed"
BestModelNotFound == "Best model not found in trained models"
NoBestModel == "No best model found"

Artifact(kind, model) == [kind |-> kind, model |-> model]

\* position of the next iteration of the loop over the models (utils.py 136, 145)
IterationPc(n) ==
    IF n > Len(models) THEN "evaluated"
    ELSE IF self.param_finetune THEN "search" ELSE "fit"

\* classification.py 336-366: the models are built and evaluate_models is called
BuildModels ==
    /\ tpc = "build"
    /\ IF \E n \in DOMAIN self.model_list : self.model_list[n] \notin Range(models_base)
       THEN /\ tpc' = "raised"
            /\ error' = KeyErrorRaised
            /\ UNCHANGED model_i
       ELSE /\ tpc' = IterationPc(1)
            /\ model_i' = 1
            /\ UNCHANGED error
    /\ UNCHANGED <<train_config, report, searches, fits, model_report, best_model_name,
                   best_model_score, trained_models_info, artifacts>>
    /\ UNCHANGED <<call_vars, store_vars, recompute_vars, race_vars, files, log>>

\* a fitted grid search: the estimator searched, the features it was fitted
\* on, the fraction of the training set drawn, whether it raised
Search(estimator, X, raised) ==
    [model |-> models[model_i], estimator |-> estimator, X |-> X,
     fraction |-> self.finetune_fraction, raised |-> raised]

\* the complete training set, as a percentage of its rows
Complete == 100

\* a call on the model of the iteration: what it is, the features it is given
\* and the share of the training rows in them
ModelCall(call, X, fraction) ==
    [model |-> models[model_i], call |-> call, X |-> X, fraction |-> fraction]

\* gs.fit(X_train_cv, y_train_cv) (utils.py 210, 220, 229): the search is
\* fitted on the sub-sample drawn at lines 153-180
SearchCalls(X_train_cv, pipeline_raised) ==
    IF pipeline_raised
    THEN <<ModelCall("search", X_train_cv, self.finetune_fraction),
           ModelCall("search", X_train_cv, self.finetune_fraction)>>
    ELSE <<ModelCall("search", X_train_cv, self.finetune_fraction)>>

\* a mutant of the final fit: the model is fitted on the sample of the search
FinalFitOnSample == ModelCall("fit", "X_train", self.finetune_fraction)

\* model.fit(X_train, y_train) (utils.py 235)
FinalFit == ModelCall("fit", "X_train", Complete)

\* utils.py 145-234: the hyperparameter search of one model
SearchStep ==
    /\ tpc = "search"
    /\ LET model_key == models[model_i]
           param_key == ParamKey(param, model_key)
           X_train_cv == IF use_pipeline_cv THEN "X_train_raw" ELSE "X_train"
       IN  IF param_key = NoKey
           THEN /\ tpc' = "raised"
                /\ error' = GridNotFound
                /\ UNCHANGED <<searches, fits>>
           ELSE /\ fits' = fits \o SearchCalls(X_train_cv,
                                   use_pipeline_cv /\ outcomes.pipeline_search = "raises")
                                \o <<ModelCall("set_params", "", 0)>>
                /\ searches' =
                       IF use_pipeline_cv
                       THEN IF outcomes.pipeline_search = "raises"
                            THEN searches \o <<Search("pipeline", X_train_cv, TRUE),
                                               Search("model", X_train_cv, FALSE)>>
                            ELSE Append(searches, Search("pipeline", X_train_cv, FALSE))
                       ELSE Append(searches, Search("model", X_train_cv, FALSE))
                /\ tpc' = "fit"
                /\ UNCHANGED error
    /\ UNCHANGED <<train_config, model_i, report, model_report, best_model_name,
                   best_model_score, trained_models_info, artifacts>>
    /\ UNCHANGED <<call_vars, store_vars, recompute_vars, race_vars, files, log>>

\* _prediction_scores (utils.py 247-262): the output the ROC-AUC scores come
\* from; an exception in the first try leaves the label predictions
prediction_scores(m) ==
    IF m.predict_proba # "missing"
    THEN IF m.predict_proba = "ok" THEN "predict_proba" ELSE "predict"
    ELSE IF m.decision_function # "missing"
    THEN IF m.decision_function = "ok" THEN "decision_function" ELSE "predict"
    ELSE "predict"

\* utils.py 235-307: the final fit, the cross-validation and the report
FitStep ==
    /\ tpc = "fit"
    /\ fits' = fits \o <<FinalFit,
                         ModelCall("cross_validation", "X_train", Complete),
                         ModelCall("evaluation", "X_train, X_test", Complete)>>
    /\ report' = Put(report, models[model_i],
                     [cv_f1 |-> outcomes.cv_f1[model_i],
                      roc_auc_scores |-> prediction_scores(outcomes)])
    /\ tpc' = "table"
    /\ UNCHANGED <<train_config, model_i, searches, model_report, best_model_name,
                   best_model_score, trained_models_info, artifacts, error>>
    /\ UNCHANGED <<call_vars, store_vars, recompute_vars, race_vars, files, log>>

\* utils.py 309-356: the result table as PNG and PDF, outside any try of its own
TableStep ==
    /\ tpc = "table"
    /\ IF "table" \in outcomes.fails
       THEN /\ tpc' = "raised"
            /\ error' = TableWriteFailed
            /\ UNCHANGED <<artifacts, log>>
       ELSE /\ artifacts' = artifacts \cup {Artifact("results.png", models[model_i]),
                                            Artifact("results.pdf", models[model_i])}
            /\ log' = Append(log, "info: model results saved")
            /\ tpc' = "csv"
            /\ UNCHANGED error
    /\ UNCHANGED <<train_config, model_i, report, searches, fits, model_report,
                   best_model_name, best_model_score, trained_models_info>>
    /\ UNCHANGED <<call_vars, store_vars, recompute_vars, race_vars, files>>

\* utils.py 358-382: the summary and per-fold CSVs, in a try whose except passes
CsvStep ==
    /\ tpc = "csv"
    /\ artifacts' = IF "csv" \in outcomes.fails THEN artifacts
                    ELSE artifacts \cup {Artifact("results.csv", models[model_i]),
                                         Artifact("cv_folds.csv", models[model_i])}
    /\ model_i' = model_i + 1
    /\ tpc' = IterationPc(model_i + 1)
    /\ UNCHANGED <<train_config, report, searches, fits, model_report, best_model_name,
                   best_model_score, trained_models_info, error>>
    /\ UNCHANGED <<call_vars, store_vars, recompute_vars, race_vars, files, log>>

\* utils.py 384-395 and classification.py 352: the report is returned
EvaluateReturn ==
    /\ tpc = "evaluated"
    /\ model_report' = report
    /\ model_i' = 1
    /\ tpc' = "importance"
    /\ UNCHANGED <<train_config, report, searches, fits, best_model_name,
                   best_model_score, trained_models_info, artifacts, error>>
    /\ UNCHANGED <<call_vars, store_vars, recompute_vars, race_vars, files, log>>

\* the class pair of the run (classification.py 413-417)
TrainedPair == "AD_Control"

\* classification.py 372-434: one iteration of the loop over the models; the
\* store update is in a try whose except passes
ImportanceStep ==
    /\ tpc = "importance"
    /\ model_i <= Len(models)
    /\ LET model_name == models[model_i]
           importances == outcomes.feature_importances
       IN  IF lower(model_name) \in {xgb_key, rf_key}
           THEN /\ artifacts' = artifacts \cup {Artifact("feature_importance.png", model_name)}
                /\ IF "store" \in outcomes.fails
                   THEN UNCHANGED <<store, merged>>
                   ELSE /\ store' = StoreText(MergeBuiltIn(existing_data(store), TrainedPair,
                                                           model_name, importances))
                        /\ merged' = Append(merged,
                               [kind |-> "training", class_pair |-> TrainedPair,
                                model_key |-> "",
                                scores |-> <<Item(model_name, importances)>>,
                                report |-> <<>>])
           ELSE UNCHANGED <<artifacts, store, merged>>
    /\ model_i' = model_i + 1
    /\ UNCHANGED <<train_config, tpc, report, searches, fits, model_report,
                   best_model_name, best_model_score, trained_models_info, error>>
    /\ UNCHANGED <<call_vars, initial_store, model_reports, recompute_vars, race_vars, files, log>>

\* classification.py 436-454: model_reports.json, outside any try of its own
ReportsStep ==
    /\ tpc = "importance"
    /\ model_i > Len(models)
    /\ IF "reports" \in outcomes.fails
       THEN /\ tpc' = "raised"
            /\ error' = ReportsWriteFailed
            /\ UNCHANGED <<artifacts, model_reports>>
       ELSE /\ artifacts' = artifacts \cup {Artifact("model_reports.json", "")}
            /\ model_reports' = [model_reports EXCEPT ![TrainedPair] =
                   StoreText(UpdateReports(existing_data(model_reports[TrainedPair]),
                                           model_report))]
            /\ tpc' = "summary"
            /\ UNCHANGED error
    /\ UNCHANGED <<train_config, model_i, report, searches, fits, model_report,
                   best_model_name, best_model_score, trained_models_info>>
    /\ UNCHANGED <<call_vars, importances_vars, recompute_vars, race_vars, files, log>>

\* classification.py 456-490: classification_summary.csv, in a try whose except passes
SummaryStep ==
    /\ tpc = "summary"
    /\ artifacts' = IF "summary" \in outcomes.fails THEN artifacts
                    ELSE artifacts \cup {Artifact("classification_summary.csv", "")}
    /\ tpc' = "select"
    /\ UNCHANGED <<train_config, model_i, report, searches, fits, model_report,
                   best_model_name, best_model_score, trained_models_info, error>>
    /\ UNCHANGED <<call_vars, store_vars, recompute_vars, race_vars, files, log>>

\* the floor under the best mean CV-F1, in hundredths (classification.py 517)
UsabilityFloor == 10

\* a mutant of the selection: a later model wins only with a strictly higher score
RECURSIVE SelectBestStrict(_, _)
SelectBestStrict(reports, best) ==
    IF reports = <<>> THEN best
    ELSE SelectBestStrict(Tail(reports),
             IF Head(reports).val.cv_f1 > best.score
             THEN [name |-> Head(reports).k, score |-> Head(reports).val.cv_f1]
             ELSE best)

\* classification.py 496-501: if score >= best_model_score, the model is the best so far
RECURSIVE SelectBest(_, _)
SelectBest(reports, best) ==
    IF reports = <<>> THEN best
    ELSE SelectBest(Tail(reports),
             IF Head(reports).val.cv_f1 >= best.score
             THEN [name |-> Head(reports).k, score |-> Head(reports).val.cv_f1]
             ELSE best)

\* a mutant of the floor check: a score at the floor is refused too
BelowFloorInclusive(score) == score <= UsabilityFloor

\* classification.py 517: best_model_score < 0.1
BelowFloor(score) == score < UsabilityFloor

\* classification.py 504-514: the best model is looked up by name, then ignoring case
InModels(name) == \E n \in DOMAIN models : lower(models[n]) = lower(name)

\* classification.py 492-518
SelectStep ==
    /\ tpc = "select"
    /\ LET best == SelectBest(model_report, [name |-> "", score |-> 0])
       IN  /\ best_model_name' = best.name
           /\ best_model_score' = best.score
           /\ IF ~InModels(best.name)
              THEN tpc' = "raised" /\ error' = BestModelNotFound
              ELSE IF BelowFloor(best.score)
              THEN tpc' = "raised" /\ error' = NoBestModel
              ELSE tpc' = "save" /\ UNCHANGED error
    /\ UNCHANGED <<train_config, model_i, report, searches, fits, model_report,
                   trained_models_info, artifacts>>
    /\ UNCHANGED <<call_vars, store_vars, recompute_vars, race_vars, files, log>>

\* classification.py 520-534: the best model is saved and, with return_models,
\* every trained model is saved and the handles are returned
SaveStep ==
    /\ tpc = "save"
    /\ LET saved == IF self.save_best_model
                    THEN {Artifact("best_model.pkl", best_model_name)} ELSE {}
           handles == {Artifact("explanation_model.pkl", models[n]) : n \in DOMAIN models}
       IN  IF return_models
           THEN /\ artifacts' = artifacts \cup saved \cup handles
                /\ trained_models_info' = models
                /\ tpc' = "done"
                /\ log' = log \o [n \in 1..(Cardinality(saved) + Len(models)) |->
                                     "info: saved model object"]
           ELSE /\ artifacts' = artifacts \cup saved
                /\ tpc' = "final"
                /\ log' = log \o [n \in 1..Cardinality(saved) |-> "info: saved model object"]
                /\ UNCHANGED trained_models_info
    /\ UNCHANGED <<train_config, model_i, report, searches, fits, model_report,
                   best_model_name, best_model_score, error>>
    /\ UNCHANGED <<call_vars, store_vars, recompute_vars, race_vars, files>>

\* classification.py 536-558: model_reports.json once more, and the best model is printed
FinalStep ==
    /\ tpc = "final"
    /\ IF "reports" \in outcomes.fails
       THEN /\ tpc' = "raised"
            /\ error' = ReportsWriteFailed
            /\ UNCHANGED <<log, model_reports>>
       ELSE /\ tpc' = "done"
            /\ model_reports' = [model_reports EXCEPT ![TrainedPair] =
                   StoreText(UpdateReports(existing_data(model_reports[TrainedPair]),
                                           model_report))]
            /\ log' = Append(log, "info: model training and evaluation complete")
            /\ UNCHANGED error
    /\ UNCHANGED <<train_config, model_i, report, searches, fits, model_report,
                   best_model_name, best_model_score, trained_models_info, artifacts>>
    /\ UNCHANGED <<call_vars, importances_vars, recompute_vars, race_vars, files>>

NextTrain ==
    \/ BuildModels
    \/ SearchStep
    \/ FitStep
    \/ TableStep
    \/ CsvStep
    \/ EvaluateReturn
    \/ ImportanceStep
    \/ ReportsStep
    \/ SummaryStep
    \/ SelectStep
    \/ SaveStep
    \/ FinalStep

(***************************************************************************)
(* services/recompute_ranking.py: the ranking of one class pair is         *)
(* recomputed from feature_importances.json under the aggregation of the   *)
(* command line.                                                           *)
(***************************************************************************)
\* one call of feature_rank on a single class pair: the files and the log after it
FeatureRankPair(disk, class_pair, analysis, label, agg, weights, k, e) ==
    LET r == RankAll(analysis.items, weights, class_pair)
        fused == Fuse(RankedDataFrame(r.data), AggName(ResolveAggregation(agg, e)),
                      ResolveWeights(weights, e), ResolveRrfK(k, e))
    IN  IF ~isinstance_dict(analysis)
        THEN [files |-> disk, log |-> <<"error: class pair is not a dictionary">>]
        ELSE IF r.data = <<>>
        THEN [files |-> disk, log |-> Append(r.log, "warning: no valid analysis data")]
        ELSE [files |-> to_csv(disk, CsvPath(class_pair, label), fused.df),
              log |-> IF fused.raised
                      THEN Append(r.log, "error: aggregation failed, falling back to sum")
                      ELSE r.log]

\* recompute_ranking.py 14-44: the arguments are read and the store is loaded
RecomputeLoad ==
    /\ rpc = "start"
    /\ IF store.state = "absent"
       THEN exit_code' = 2 /\ rpc' = "exited" /\ UNCHANGED data
       ELSE IF store.state # "text"
       THEN exit_code' = 1 /\ rpc' = "exited" /\ UNCHANGED data
       ELSE IF argv.class_pair \notin KeySet(store.val.items)
       THEN exit_code' = 3 /\ rpc' = "exited" /\ UNCHANGED data
       ELSE data' = store.val /\ rpc' = "rank" /\ UNCHANGED exit_code
    /\ UNCHANGED <<argv, printed, files_before>>
    /\ UNCHANGED <<call_vars, store_vars, train_vars, race_vars, files, log>>

\* aggregation_method, weights and rrf_k as passed to feature_rank (lines 21-23, 40-43)
aggregation_method == IF argv.aggregation_method # "" THEN argv.aggregation_method ELSE "rrf"
recompute_weights == IF argv.aggregation_weights_json.state = "text"
           THEN argv.aggregation_weights_json.val ELSE None
recompute_rrf_k == IF argv.rrf_k.state = "text" THEN argv.rrf_k.val.v ELSE DefaultRrfK

\* recompute_ranking.py 45-57: feature_rank is called, with no subdir_label
RecomputeRank ==
    /\ rpc = "rank"
    /\ LET r == FeatureRankPair(files, argv.class_pair,
                                Get(data.items, argv.class_pair, None), <<>>,
                                aggregation_method, recompute_weights, recompute_rrf_k, env)
       IN  /\ files' = r.files
           /\ log' = log \o r.log
    /\ rpc' = "print"
    /\ UNCHANGED <<argv, data, exit_code, printed, files_before>>
    /\ UNCHANGED <<call_vars, store_vars, train_vars, race_vars>>

\* recompute_ranking.py 59-73: with a label the canonical file is copied under
\* the label's directory; the path of the result is printed
RecomputePrint ==
    /\ rpc = "print"
    /\ LET csv_path == CanonicalCsv(argv.class_pair)
           labeled_csv == LabeledCsv(argv.class_pair, Sanitize(argv.agg_label))
       IN  IF argv.agg_label # <<>> /\ Exists(files, csv_path)
           THEN /\ files' = to_csv(files, labeled_csv, ReadFile(files, csv_path))
                /\ printed' = labeled_csv
           ELSE /\ printed' = csv_path
                /\ UNCHANGED files
    /\ rpc' = "done"
    /\ UNCHANGED <<argv, data, exit_code, files_before>>
    /\ UNCHANGED <<call_vars, store_vars, train_vars, race_vars, log>>

NextRecompute == RecomputeLoad \/ RecomputeRank \/ RecomputePrint

(***************************************************************************)
(* The calls the model starts from.  Each family varies one part of the    *)
(* input widely and keeps the rest at the defaults of the signature.       *)
(***************************************************************************)
FeatureNames == <<"f1", "f2", "f3", "f4", "f5">>
PairNames == <<"AD_Control", "AD_MCI", "MCI_Control", "AD_PD">>
LabelChars == {"m", "=", ".", "!"}

Features == {FeatureNames[i] : i \in 1..MaxFeatures}
Injective(s) == \A i, j \in DOMAIN s : i # j => s[i] # s[j]
Arrangements ==
    {a \in UNION {[1..n -> Features] : n \in 0..MaxFeatures} : Injective(a)}
Perms == {p \in [1..MaxFeatures -> 1..MaxFeatures] : Injective(p)}

\* every flat mapping: any features, any insertion order, scores 0..MaxScore
FlatMaps ==
    UNION {{Dict([i \in DOMAIN a |-> Item(a[i], Num(sc[i]))]) :
               sc \in [DOMAIN a -> 0..MaxScore]} : a \in Arrangements}

\* all features in the order f1, f2, ..., the scores a permutation
PermMap(p) == Dict([i \in 1..MaxFeatures |-> Item(FeatureNames[i], Num(p[i]))])
PermMaps == {PermMap(p) : p \in Perms}

\* features in the order f1, f2, ..., each absent (0) or with a score 1..MaxScore
CanonMap(g) ==
    Dict(SelectSeq([i \in 1..MaxFeatures |-> Item(FeatureNames[i], Num(g[i]))],
                   LAMBDA e : e.val.v > 0))
CanonMaps == {CanonMap(g) : g \in [1..MaxFeatures -> 0..MaxScore]}
PresenceMaps == {CanonMap(g) : g \in [1..MaxFeatures -> 0..1]}

DescendingMap == PermMap([i \in 1..MaxFeatures |-> MaxFeatures + 1 - i])
AscendingMap == PermMap([i \in 1..MaxFeatures |-> i])

OnePair(analysis) == <<Item(PairNames[1], analysis)>>

\* methods A = {f1:3, f2:1, f3:2} and B = {f1:2, f2:3, f3:1}
ExampleAnalysis ==
    Dict(<<Item("A", Dict(<<Item("f1", Num(3)), Item("f2", Num(1)), Item("f3", Num(2))>>)),
           Item("B", Dict(<<Item("f1", Num(2)), Item("f2", Num(3)), Item("f3", Num(1))>>))>>)

\* f1 is first for A and last for B and C; f2 is second for all three
SplitAnalysis ==
    Dict(<<Item("A", Dict(<<Item("f1", Num(3)), Item("f2", Num(2)), Item("f3", Num(1))>>)),
           Item("B", Dict(<<Item("f1", Num(1)), Item("f2", Num(2)), Item("f3", Num(3))>>)),
           Item("C", Dict(<<Item("f1", Num(1)), Item("f2", Num(2)), Item("f3", Num(3))>>))>>)

\* method B holds a non-numeric score: rank_dict gives it the empty ranking
MalformedMethodAnalysis ==
    Dict(<<Item("A", Dict(<<Item("f1", Num(3)), Item("f2", Num(1))>>)),
           Item("B", Dict(<<Item("f1", Str(0))>>))>>)

\* the nested form: "shap" reports per sub-method
NestedAnalysis ==
    Dict(<<Item("A", Dict(<<Item("f1", Num(1)), Item("f2", Num(2)), Item("f3", Num(3))>>)),
           Item("shap", Dict(<<
               Item("SHAP", Dict(<<Item("f1", Num(4)), Item("f2", Num(0))>>)),
               Item("lime", Dict(<<Item("f1", Num(0)), Item("f2", Num(2)), Item("f3", Num(1))>>))>>))>>)

\* no mapping-valued analysis at all
NoValidAnalysis == Dict(<<Item("A", Str(0))>>)

\* one call per flat mapping, ranked as the only method
InitRankDict ==
    \E m \in FlatMaps :
        Call(OnePair(Dict(<<Item("A", m)>>)), DefaultNumTop, <<>>, "rrf", None,
             DefaultRrfK, NoEnv, {})

\* three methods over all the features, under each fusion algorithm
InitThreeMethods ==
    \E b \in PermMaps, c \in PermMaps, n \in 1..MaxTop,
       agg \in {"rrf", "rank_product", "weighted_borda", "sum"} :
        Call(OnePair(Dict(<<Item("A", DescendingMap), Item("B", b), Item("C", c)>>)),
             n, <<>>, agg, None, DefaultRrfK, NoEnv, {})

\* three methods over all the features, fused by 'rrf' under every rrf_k up to MaxRrfK
InitLimit ==
    \E b \in PermMaps, c \in PermMaps, k \in 0..MaxRrfK :
        Call(OnePair(Dict(<<Item("A", DescendingMap), Item("B", b), Item("C", c)>>)),
             DefaultNumTop, <<>>, "rrf", None, k, NoEnv, {})

\* one nested method: two sub-methods with missing features and tied scores and
\* a third that holds a non-numeric score, with and without weights
InitNested ==
    \E a \in CanonMaps, b \in PermMaps \cup PresenceMaps,
       weights \in {None, Dict(<<Item("shap", Num(3))>>)} :
        Call(OnePair(Dict(<<Item("shap", Dict(<<
                 Item("SHAP", a), Item("lime", b),
                 Item("perm", Dict(<<Item("f1", Str(0)), Item("f2", Num(1))>>))>>))>>)),
             DefaultNumTop, <<>>, "rrf", weights, DefaultRrfK, NoEnv, {})

\* method B mixes a numeric score with a sub-mapping of scores
MixedAnalysis(a) ==
    Dict(<<Item("A", a),
           Item("B", Dict(<<Item("f1", Num(2)),
                            Item("sub", Dict(<<Item("f2", Num(1)), Item("f3", Num(2))>>))>>))>>)

InitMixed ==
    \E a \in PermMaps, agg \in {"rrf", "sum"} :
        Call(OnePair(MixedAnalysis(a)), DefaultNumTop, <<>>, agg, None,
             DefaultRrfK, NoEnv, {})

\* two methods, with missing features and tied scores
InitTwoMethods ==
    \E a \in CanonMaps, b \in PermMaps \cup PresenceMaps,
       agg \in {"rrf", "rank_product", "weighted_borda", "sum"} :
        Call(OnePair(Dict(<<Item("A", a), Item("B", b)>>)),
             DefaultNumTop, <<>>, agg, None, DefaultRrfK, NoEnv, {})

AggregationArgs == {"", "rrf", "rank_product", "weighted_borda", "sum", "SUM", "median"}
WeightArgs ==
    {None, Dict(<<>>), Dict(<<Item("A", Num(3))>>), Dict(<<Item("a", Num(3))>>),
     Dict(<<Item("a", Str(0))>>), List(1)}
EnvWeights == {Unset, EnvText(Dict(<<Item("b", Num(3))>>)), Garbage}
EnvRrfKs == {Unset, EnvText(Num(0)), EnvText(Num(2)), Garbage}

\* every combination of explicit arguments and overrides, on two tables
InitConfig ==
    \E analysis \in {ExampleAnalysis, SplitAnalysis},
       agg \in AggregationArgs, weights \in WeightArgs, k \in {2, DefaultRrfK},
       ea \in {"", "sum", "weighted_borda"}, ew \in EnvWeights, ek \in EnvRrfKs :
        Call(OnePair(analysis), DefaultNumTop, <<>>, agg, weights, k,
             [FEATURE_RANK_AGGREGATION |-> ea, FEATURE_RANK_WEIGHTS |-> ew,
              FEATURE_RANK_RRF_K |-> ek], {})

Labels == UNION {[1..n -> LabelChars] : n \in 0..MaxLabelLen}

\* every run label, with and without a canonical file of an earlier run
InitLabel ==
    \E label \in Labels,
       disk \in {{}, {[path |-> CanonicalCsv(PairNames[1]), content |-> OldFile]}} :
        Call(OnePair(ExampleAnalysis), DefaultNumTop, label, "rrf", None,
             DefaultRrfK, NoEnv, disk)

PairPool == {ExampleAnalysis, SplitAnalysis, MalformedMethodAnalysis, NestedAnalysis,
             NoValidAnalysis, Str(0)}
Batches ==
    UNION {{[i \in 1..n |-> Item(PairNames[i], d[i])] : d \in [1..n -> PairPool]} :
              n \in 1..MaxPairs}

\* batches of class pairs, valid and malformed
InitBatch ==
    \E tf \in Batches, n \in 1..MaxTop, agg \in {"rrf", "sum"}, label \in {<<>>, <<"m">>},
       ew \in {Unset, EnvText(Dict(<<Item("shap", Num(3))>>))} :
        Call(tf, n, label, agg, None, DefaultRrfK,
             [NoEnv EXCEPT !.FEATURE_RANK_WEIGHTS = ew], {})

\* no analysis run has touched the store
NoReports == [class_pair \in StorePairs |-> NoStore]

StoreOff ==
    /\ store = NoStore
    /\ initial_store = NoStore
    /\ merged = <<>>
    /\ model_reports = NoReports

\* no call of feature_rank is under way
RankOff ==
    /\ run = 1
    /\ first_run = NoRun
    /\ top_features = <<>>
    /\ num_top_features = DefaultNumTop
    /\ subdir_label = <<>>
    /\ args = [aggregation |-> "rrf", aggregation_weights |-> None, rrf_k |-> DefaultRrfK]
    /\ env = NoEnv
    /\ aggregation = "rrf"
    /\ aggregation_weights = None
    /\ rrf_k = DefaultRrfK
    /\ pc = "off"
    /\ idx = 1
    /\ ranked_data = <<>>
    /\ ranked_data_df = EmptyFrame
    /\ ranked_for_output = EmptyFrame
    /\ safe_label = <<>>
    /\ all_top_features = <<>>
    /\ result = <<>>
    /\ files = {}
    /\ log = <<>>

\* no training run is under way
TrainOff ==
    /\ self = [model_list |-> <<>>, param_finetune |-> FALSE, finetune_fraction |-> 100,
               save_best_model |-> FALSE, X_train_raw |-> "None", preprocessor |-> "None"]
    /\ param = <<>>
    /\ return_models = FALSE
    /\ outcomes = [cv_f1 |-> <<>>, pipeline_search |-> "ok", fails |-> {},
                   predict_proba |-> "ok", decision_function |-> "ok",
                   feature_importances |-> Dict(<<>>)]
    /\ tpc = "off"
    /\ model_i = 1
    /\ report = <<>>
    /\ searches = <<>>
    /\ fits = <<>>
    /\ model_report = <<>>
    /\ best_model_name = ""
    /\ best_model_score = 0
    /\ trained_models_info = <<>>
    /\ artifacts = {}
    /\ error = ""

\* the script is not running
RecomputeOff ==
    /\ argv = [class_pair |-> "", aggregation_method |-> "",
               aggregation_weights_json |-> Unset, rrf_k |-> Unset, agg_label |-> <<>>]
    /\ rpc = "off"
    /\ data = Dict(<<>>)
    /\ exit_code = 0
    /\ printed = <<>>
    /\ files_before = {}

\* no process is at the store
RaceOff ==
    /\ procs = <<>>
    /\ events = <<>>

Init ==
    /\ StoreOff
    /\ TrainOff
    /\ RecomputeOff
    /\ RaceOff
    /\ \/ InitRankDict
       \/ InitThreeMethods
       \/ InitLimit
       \/ InitNested
       \/ InitMixed
       \/ InitTwoMethods
       \/ InitConfig
       \/ InitLabel
       \/ InitBatch

Spec == Init /\ [][Next]_vars

\* the calls that are made twice
InitTwice ==
    /\ StoreOff
    /\ TrainOff
    /\ RecomputeOff
    /\ RaceOff
    /\ \/ InitConfig
       \/ InitLabel
       \/ InitBatch

SpecTwice == InitTwice /\ [][NextTwice]_vars

\* the store before the runs: absent, unparsable, or left by earlier runs
EarlierStore ==
    Dict(<<Item("AD_Control", Dict(<<
               Item("anova", Dict(<<Item("f1", Num(1)), Item("f3", Num(2))>>)),
               Item("xgbclassifier", Dict(<<
                   Item("shap", Dict(<<Item("f2", Num(1))>>))>>))>>)),
           Item("MCI_Control", Dict(<<
               Item("t_test", Dict(<<Item("f1", Num(2))>>))>>))>>)

\* model_reports.json before the runs: absent, or left by an earlier training run
EarlierReports ==
    [NoReports EXCEPT !["AD_Control"] =
        StoreText(Dict(<<Item("svc", [cv_f1 |-> 80, roc_auc_scores |-> "predict_proba"]),
                         Item("xgbclassifier",
                              [cv_f1 |-> 5, roc_auc_scores |-> "predict_proba"])>>))]

InitStore ==
    /\ RankOff
    /\ TrainOff
    /\ RecomputeOff
    /\ RaceOff
    /\ store \in {NoStore, UnparsableStore, StoreText(EarlierStore)}
    /\ initial_store = store
    /\ merged = <<>>
    /\ model_reports \in {NoReports, EarlierReports}

SpecStore == InitStore /\ [][NextStore]_vars

\* a process about to read the store
Writer(kind, class_pair, model_key, scores) ==
    [kind |-> kind, class_pair |-> class_pair, model_key |-> model_key, scores |-> scores,
     pc |-> "read", existing_data |-> Dict(<<>>)]

\* the processes: statistical tests, explanations of a model, and the
\* built-in importances of a trained model
RaceWriters ==
    {Writer("statistical", c, "", tf) : c \in StorePairs, tf \in StatisticalRuns \ {<<>>}}
    \cup {Writer("explanation", c, xgb_key, tf) : c \in StorePairs, tf \in ExplanationRuns}
    \cup {Writer("training", c, "", <<tr>>) :
             c \in StorePairs,
             tr \in {t \in UNION {Range(trained) : trained \in TrainedSets} :
                        t.k \in {xgb_key, rf_key}}}

InitRace ==
    /\ RankOff
    /\ TrainOff
    /\ RecomputeOff
    /\ store \in {NoStore, UnparsableStore, StoreText(EarlierStore)}
    /\ initial_store = store
    /\ merged = <<>>
    /\ model_reports = NoReports
    /\ procs \in {<<a, b>> : a \in RaceWriters, b \in RaceWriters}
    /\ events = <<>>

SpecRace == InitRace /\ [][NextRace]_vars

MaxModels == 3

\* the model lists of the runs: the first MaxModels models, each at most once
ModelLists ==
    {l \in UNION {[1..n -> {models_base[j] : j \in 1..MaxModels}] : n \in 1..MaxModels} :
        Injective(l)}

\* the mean CV-F1 values of the runs, in hundredths: 0.05, 0.10 and 0.80
F1Values == {5, 10, 80}

\* the construction of the Classification object, data_transfrom done, and
\* the call of initiate_model_trainer (classification.py 86-130, 258, 270, 312)
Train(model_list, finetune, fraction, save, raw, pre, grids, ret, f1, search, fails, est) ==
    /\ self = [model_list |-> model_list, param_finetune |-> finetune,
               finetune_fraction |-> fraction, save_best_model |-> save,
               X_train_raw |-> raw, preprocessor |-> pre]
    /\ param = grids
    /\ return_models = ret
    /\ outcomes = [cv_f1 |-> f1, pipeline_search |-> search, fails |-> fails,
                   predict_proba |-> est.predict_proba,
                   decision_function |-> est.decision_function,
                   feature_importances |-> Dict(<<Item("f1", Num(2)), Item("f2", Num(1))>>)]
    /\ tpc = "build"
    /\ model_i = 1
    /\ report = <<>>
    /\ searches = <<>>
    /\ fits = <<>>
    /\ model_report = <<>>
    /\ best_model_name = ""
    /\ best_model_score = 0
    /\ trained_models_info = <<>>
    /\ artifacts = {}
    /\ error = ""

\* estimators whose predict_proba and decision_function both work
BothScores == [predict_proba |-> "ok", decision_function |-> "ok"]

\* every list of models under every combination of mean CV-F1 values
InitSelect ==
    \E l \in ModelLists, save \in BOOLEAN, ret \in BOOLEAN :
        \E f1 \in [DOMAIN l -> F1Values] :
            Train(l, FALSE, 100, save, "raw", "unfitted", getparams, ret, f1, "ok", {},
                  BothScores)

\* the grids without those of the random forest
GridsWithoutForest == SelectSeq(getparams, LAMBDA k : k # "Random Forest")

\* the default model_list of the constructor (classification.py 98)
DefaultModelList == <<"Logistic Regression", "Decision Tree">>

\* hyperparameter search on and off, with and without raw features and
\* preprocessor, with the grids complete and not
InitFinetune ==
    \E l \in ModelLists \cup {DefaultModelList}, finetune \in BOOLEAN,
       fraction \in {50, 100}, raw \in {"None", "raw"}, pre \in {"None", "unfitted"},
       grids \in {getparams, GridsWithoutForest}, search \in {"ok", "raises"} :
        Train(l, finetune, fraction, FALSE, raw, pre, grids, FALSE,
              [n \in DOMAIN l |-> 80], search, {}, BothScores)

SideArtifacts == {"table", "csv", "store", "reports", "summary"}

\* one of the writes of the side artifacts fails
InitIo ==
    \E l \in ModelLists, kind \in SideArtifacts, ret \in BOOLEAN :
        Train(l, FALSE, 100, TRUE, "raw", "unfitted", getparams, ret,
              [n \in DOMAIN l |-> 80], "ok", {kind}, BothScores)

\* estimators with and without a probability output and a decision function,
\* working and raising
InitScores ==
    \E l \in ModelLists, proba \in {"ok", "missing", "raises"},
       decision \in {"ok", "missing", "raises"} :
        Train(l, FALSE, 100, FALSE, "raw", "unfitted", getparams, FALSE,
              [n \in DOMAIN l |-> 80], "ok", {},
              [predict_proba |-> proba, decision_function |-> decision])

InitTrain ==
    /\ RankOff
    /\ StoreOff
    /\ RecomputeOff
    /\ RaceOff
    /\ \/ InitSelect
       \/ InitFinetune
       \/ InitIo
       \/ InitScores

SpecTrain == InitTrain /\ [][NextTrain]_vars

\* the stores the script finds: absent, unparsable, left by earlier runs
\* that used both layouts, and one whose class pair holds no scores
EmptyPairStore == Dict(<<Item("AD_Control", Dict(<<>>))>>)
RecomputeLabels == {<<>>, <<"m">>, <<"!">>, <<"m", "!", "=">>}

InitRecompute ==
    /\ TrainOff
    /\ RaceOff
    /\ \E disk \in {{}, {[path |-> CanonicalCsv("AD_Control"), content |-> OldFile]}},
          s \in {NoStore, UnparsableStore, StoreText(EarlierStore), StoreText(EmptyPairStore)},
          class_pair \in {"AD_Control", "MCI_Control", "AD_MCI"},
          agg \in {"", "rrf", "sum", "weighted_borda"},
          w \in {Unset, EnvText(Dict(<<Item("anova", Num(3))>>)), Garbage},
          k \in {Unset, EnvText(Num(2))},
          label \in RecomputeLabels :
           /\ run = 1
           /\ first_run = NoRun
           /\ top_features = <<>>
           /\ num_top_features = DefaultNumTop
           /\ subdir_label = <<>>
           /\ args = [aggregation |-> "rrf", aggregation_weights |-> None,
                      rrf_k |-> DefaultRrfK]
           /\ env = NoEnv
           /\ aggregation = "rrf"
           /\ aggregation_weights = None
           /\ rrf_k = DefaultRrfK
           /\ pc = "off"
           /\ idx = 1
           /\ ranked_data = <<>>
           /\ ranked_data_df = EmptyFrame
           /\ ranked_for_output = EmptyFrame
           /\ safe_label = <<>>
           /\ all_top_features = <<>>
           /\ result = <<>>
           /\ files = disk
           /\ log = <<>>
           /\ store = s
           /\ initial_store = s
           /\ merged = <<>>
           /\ model_reports = NoReports
           /\ argv = [class_pair |-> class_pair, aggregation_method |-> agg,
                      aggregation_weights_json |-> w, rrf_k |-> k, agg_label |-> label]
           /\ rpc = "start"
           /\ data = Dict(<<>>)
           /\ exit_code = 0
           /\ printed = <<>>
           /\ files_before = disk

SpecRecompute == InitRecompute /\ [][NextRecompute]_vars

(***************************************************************************)
(* Properties of rank_dict and of the ranking table.                       *)
(***************************************************************************)
RowNames(df) == [i \in DOMAIN df.rows |-> df.rows[i].name]
RowNameSet(df) == {df.rows[i].name : i \in DOMAIN df.rows}
KnownAlgorithms == {"rrf", "rank_product", "weighted_borda", "sum"}

\* the class pair the loop is at, while its frame is being fused or persisted
InIteration == pc \in {"fuse", "persist"}
CurrentAnalysis == top_features[idx].val.items

\* the flat, all-numeric mappings among the current class pair's methods
FlatMethods ==
    {i \in DOMAIN CurrentAnalysis :
        /\ isinstance_dict(CurrentAnalysis[i].val)
        /\ \A j \in DOMAIN CurrentAnalysis[i].val.items :
               isinstance_number(CurrentAnalysis[i].val.items[j].val)}

\* C1: for a flat mapping feature -> numeric score with N features, rank_dict
\* returns ranks over exactly the same N features, the ranks are exactly 1..N,
\* each used once, and a strictly higher score gets a strictly smaller rank.
C1_RankDictBijection ==
    InIteration =>
        \A i \in FlatMethods :
            LET d == CurrentAnalysis[i].val.items
                ranks == Get(ranked_data, CurrentAnalysis[i].k, <<>>)
            IN  /\ KeySet(ranks) = KeySet(d)
                /\ Len(ranks) = Len(d)
                /\ {ranks[j].val : j \in DOMAIN ranks} = 1..Len(d)
                /\ \A f, g \in DOMAIN d :
                       d[f].val.v > d[g].val.v =>
                           Get(ranks, d[f].k, 0) < Get(ranks, d[g].k, 0)

\* a flat mapping of all the features with a tie and a strict difference is ranked
C1_Witness ==
    /\ InIteration
    /\ \E i \in FlatMethods :
           LET d == CurrentAnalysis[i].val.items
           IN  /\ Len(d) = MaxFeatures
               /\ \E f, g \in DOMAIN d : f < g /\ d[f].val.v < d[g].val.v
               /\ \E f, g \in DOMAIN d : f # g /\ d[f].val.v = d[g].val.v
               /\ Len(Get(ranked_data, CurrentAnalysis[i].k, <<>>)) = MaxFeatures

\* the sum of the ranks the methods of ranked_data gave to a feature
OverallOf(name) ==
    SeqSum([m \in DOMAIN ranked_data |-> Get(ranked_data[m].val, name, 0)])

IsExampleCall == top_features[idx].val = ExampleAnalysis

\* C2: with aggregation 'sum' the rows are in ascending order of the overall
\* score, the sum of the per-method ranks; for A={f1:3,f2:1,f3:2} and
\* B={f1:2,f2:3,f3:1} the ranks are A={f1:1,f2:3,f3:2}, B={f1:2,f2:1,f3:3}, the
\* overall scores f1:3, f2:4, f3:5 and the order f1, f2, f3.
C2_SumOrder ==
    (pc = "persist" /\ AggName(aggregation) = "sum") =>
        LET rows == ranked_for_output.rows
        IN  /\ \A i \in DOMAIN rows : rows[i].overall = OverallOf(rows[i].name)
            /\ \A i, j \in DOMAIN rows : i < j => rows[i].overall <= rows[j].overall
            /\ RowNameSet(ranked_for_output) = RowNameSet(ranked_data_df)
            /\ IsExampleCall =>
                   /\ Get(ranked_data, "A", <<>>) =
                          <<Item("f1", 1), Item("f3", 2), Item("f2", 3)>>
                   /\ Get(ranked_data, "B", <<>>) =
                          <<Item("f2", 1), Item("f1", 2), Item("f3", 3)>>
                   /\ RowNames(ranked_for_output) = <<"f1", "f2", "f3">>
                   /\ [i \in DOMAIN rows |-> rows[i].overall] = <<3, 4, 5>>

\* the example is fused with 'sum'
C2_Witness ==
    /\ pc = "persist"
    /\ AggName(aggregation) = "sum"
    /\ IsExampleCall
    /\ RowNames(ranked_for_output) = <<"f1", "f2", "f3">>

\* the features every method of ranked_data ranked
RankedByAll == {f \in UNION {KeySet(ranked_data[m].val) : m \in DOMAIN ranked_data} :
                   \A m \in DOMAIN ranked_data : f \in KeySet(ranked_data[m].val)}

NoMissingRank(df) ==
    \A i \in DOMAIN df.rows : \A m \in DOMAIN df.rows[i].ranks : df.rows[i].ranks[m] # NaN

\* C3: a feature is a row of the class pair's table if and only if every method
\* that has a rank column (every mapping-valued analysis) gave it a rank, its
\* row holds exactly those ranks, and no persisted table has a missing rank.
C3_InnerJoin ==
    /\ InIteration =>
           /\ RowNameSet(ranked_data_df) = RankedByAll
           /\ Len(ranked_data_df.rows) = Cardinality(RankedByAll)
           /\ \A i \in DOMAIN ranked_data_df.rows :
                  ranked_data_df.rows[i].ranks =
                      [m \in DOMAIN ranked_data |->
                          Get(ranked_data[m].val, ranked_data_df.rows[i].name, NaN)]
    /\ pc = "persist" => RowNameSet(ranked_for_output) = RankedByAll
    /\ \A f \in files : NoMissingRank(f.content)

\* a table was persisted that keeps one feature and drops another that only
\* some of the methods ranked
C3_Witness ==
    /\ pc = "loop"
    /\ idx > 1
    /\ RankedByAll # {}
    /\ \E m \in DOMAIN ranked_data : KeySet(ranked_data[m].val) \ RankedByAll # {}
    /\ \E f \in files : RowNameSet(f.content) = RankedByAll

\* the methods of the current class pair that hold scores and got no ranking
EmptiedMethods ==
    {m \in DOMAIN ranked_data :
        /\ ranked_data[m].val = <<>>
        /\ Get(CurrentAnalysis, ranked_data[m].k, None).items # <<>>}
RankedMethods == {m \in DOMAIN ranked_data : ranked_data[m].val # <<>>}

\* C4: when one method of a class pair yields an empty ranking, only that method
\* is lost: the class pair's table is computed from the remaining valid methods
\* and keeps the features those methods ranked.
C4_OnlyTheMethodIsLost ==
    (pc = "persist" /\ EmptiedMethods # {} /\ RankedMethods # {}) =>
        RowNameSet(ranked_for_output) =
            {f \in Features : \A m \in RankedMethods : f \in KeySet(ranked_data[m].val)}

\* C5: an explicitly passed aggregation, aggregation_weights or rrf_k wins over
\* its override: the order is the one the explicit arguments give.  (An rrf_k
\* equal to the default of the signature may be one that was not passed.)
C5_ExplicitArgumentsWin ==
    pc = "persist" =>
        LET agg == IF args.aggregation # "" THEN args.aggregation ELSE aggregation
            weights == IF args.aggregation_weights.t # "none"
                       THEN args.aggregation_weights ELSE aggregation_weights
            k == IF args.rrf_k # DefaultRrfK THEN args.rrf_k ELSE rrf_k
        IN  ranked_for_output = Fuse(ranked_data_df, AggName(agg), weights, k).df

(***************************************************************************)
(* Properties of the run label and of the files written.                   *)
(***************************************************************************)
\* a ranking has been written by this call
Persisted == all_top_features # <<>>

\* position i of the label starts a piece of the safe label: an allowed
\* character, or the first character of a run of other characters
Kept(label, i) ==
    \/ label[i] \in AllowedChars
    \/ i = 1
    \/ label[i - 1] \in AllowedChars
KeptBefore(label, i) == Cardinality({j \in 1..i : Kept(label, j)})

\* C6 (as the code has it): sanitization keeps every character of
\* [A-Za-z0-9._=+-] in place and order and replaces every maximal run of other
\* characters by one '_': "m!!" becomes "m_".
C6_SanitizeRuns ==
    (subdir_label # <<>> /\ Persisted) =>
        /\ Len(safe_label) = KeptBefore(subdir_label, Len(subdir_label))
        /\ \A i \in DOMAIN subdir_label :
               Kept(subdir_label, i) =>
                   safe_label[KeptBefore(subdir_label, i)] =
                       IF subdir_label[i] \in AllowedChars THEN subdir_label[i] ELSE "_"
        /\ subdir_label = <<"m", "!", "!">> => safe_label = <<"m", "_">>

\* the label "m!!" was sanitized
C6_Witness ==
    /\ Persisted
    /\ subdir_label = <<"m", "!", "!">>
    /\ safe_label = <<"m", "_">>

\* C6 as stated: every other character is replaced by one '_', character for
\* character, so that "m!!" becomes "m__".
C6_CharacterForCharacter ==
    (subdir_label # <<>> /\ Persisted) =>
        /\ Len(safe_label) = Len(subdir_label)
        /\ \A i \in DOMAIN subdir_label :
               safe_label[i] =
                   IF subdir_label[i] \in AllowedChars THEN subdir_label[i] ELSE "_"

CanonicalFile(disk, class_pair) ==
    [exists |-> Exists(disk, CanonicalCsv(class_pair)),
     content |-> ReadFile(disk, CanonicalCsv(class_pair))]

\* C7: with a non-empty run label no step creates or modifies the canonical
\* ranked_features_df.csv of a class pair; with no label the ranking is written
\* to the canonical file only.
C7_CanonicalUntouched ==
    [][/\ subdir_label # <<>> =>
              \A i \in DOMAIN top_features :
                  CanonicalFile(files', top_features[i].k) =
                      CanonicalFile(files, top_features[i].k)
       /\ (subdir_label = <<>> /\ pc = "persist") =>
              /\ ReadFile(files', CanonicalCsv(top_features[idx].k)) = ranked_for_output
              /\ \A f \in files' : f \in files \/ f.path = CanonicalCsv(top_features[idx].k)]_vars

(***************************************************************************)
(* Properties of the fusion order.                                         *)
(***************************************************************************)
FallbackLogged == "error: aggregation failed, falling back to sum" \in Range(log)

\* the chosen algorithm raises: only weighted_borda can, on its weights
AlgorithmRaises ==
    /\ AggName(aggregation) = "weighted_borda"
    /\ BordaRaises(rank_cols(ranked_data_df), aggregation_weights)

AscendingOverall(df) ==
    \A i, j \in DOMAIN df.rows : i < j => df.rows[i].overall <= df.rows[j].overall

\* C8: with an unknown aggregation name, and when the chosen algorithm raises,
\* the rows are in ascending order of the overall score and the fallback is
\* logged, in both cases.
C8_FallbackLogged ==
    (pc = "persist" /\ (AggName(aggregation) \notin KnownAlgorithms \/ AlgorithmRaises)) =>
        /\ AscendingOverall(ranked_for_output)
        /\ FallbackLogged

\* the weight of a method when its name and the keys of the weights are
\* compared ignoring case
BordaWeightAnyCase(weights, c) ==
    LET hits == {i \in DOMAIN weights.items : lower(weights.items[i].k) = lower(c)}
    IN  IF hits = {} THEN Num(1) ELSE weights.items[Min(hits)].val

\* the weighted sum of a row's ranks under the case-insensitive weight lookup
BordaAnyCase(row) ==
    SeqSum([m \in DOMAIN row.ranks |->
               BordaWeightAnyCase(WeightsOrEmpty(aggregation_weights),
                                  rank_cols(ranked_data_df)[m]).v * row.ranks[m]])

\* C9: with aggregation 'weighted_borda' the rows are in ascending order of
\* sum_m weight_m * rank_m, weight_m being the entry of aggregation_weights
\* whose key equals the method name ignoring case, 1.0 when there is none.
C9_WeightedBordaAnyCase ==
    (pc = "persist" /\ AggName(aggregation) = "weighted_borda" /\ ~AlgorithmRaises) =>
        \A i, j \in DOMAIN ranked_for_output.rows :
            i < j => BordaAnyCase(ranked_for_output.rows[i])
                         <= BordaAnyCase(ranked_for_output.rows[j])

\* (rrf_k+1)*...*(rrf_k+MaxFeatures) times the sum of 1/(rrf_k + rank_m)
RrfCommonDenominator == SeqProduct([j \in 1..MaxFeatures |-> rrf_k + j])
RrfScaled(row) ==
    SeqSum([m \in DOMAIN row.ranks |-> RrfCommonDenominator \div (rrf_k + row.ranks[m])])

\* the class pair before the loop position was persisted, and ranked_for_output
\* is still its table
JustPersisted ==
    /\ pc \in {"loop", "done"}
    /\ idx > 1
    /\ top_features[idx - 1].k \in KeySet(all_top_features)

\* C10: with aggregation 'rrf' a feature with a strictly larger sum of
\* 1/(rrf_k + rank_m) precedes every feature with a strictly smaller one, and
\* the top list is the first num_top_features features in that order.
C10_RrfOrder ==
    /\ (pc = "persist" /\ AggName(aggregation) = "rrf") =>
           /\ \A i, j \in DOMAIN ranked_for_output.rows :
                  RrfScaled(ranked_for_output.rows[i]) > RrfScaled(ranked_for_output.rows[j])
                      => i < j
           /\ RowNameSet(ranked_for_output) = RowNameSet(ranked_data_df)
    /\ (JustPersisted /\ AggName(aggregation) = "rrf") =>
           LET top == Get(all_top_features, top_features[idx - 1].k, <<>>)
               names == RowNames(ranked_for_output)
           IN  /\ Len(top) = IF num_top_features < Len(names)
                             THEN num_top_features ELSE Len(names)
               /\ \A i \in DOMAIN top : top[i] = names[i]
               /\ \A i, j \in DOMAIN ranked_for_output.rows :
                      RrfScaled(ranked_for_output.rows[i]) > RrfScaled(ranked_for_output.rows[j])
                          => i < j

\* an rrf ranking was cut to a shorter top list, two of its features having the
\* same overall score and different rrf scores
C10_Witness ==
    /\ JustPersisted
    /\ AggName(aggregation) = "rrf"
    /\ Len(ranked_for_output.rows) > num_top_features
    /\ \E i, j \in DOMAIN ranked_for_output.rows :
           /\ i < j
           /\ RrfScaled(ranked_for_output.rows[i]) > RrfScaled(ranked_for_output.rows[j])
           /\ ranked_for_output.rows[i].overall = ranked_for_output.rows[j].overall
    /\ Len(Get(all_top_features, top_features[idx - 1].k, <<>>)) = num_top_features

\* with ranks up to MaxFeatures, from this rrf_k on the reciprocal ranks order
\* the features as the sums of their ranks do
RrfThreshold == (MaxFeatures - 1) * (MaxFeatures - 1)

C12_FirstClassPair ==
    pc = "done" =>
        /\ result = Get(all_top_features, top_features[1].k, <<>>)
        /\ \A i \in DOMAIN top_features :
               /\ top_features[i].k \in KeySet(all_top_features)
               /\ Exists(files, CsvPath(top_features[i].k, subdir_label))

NestedMethods ==
    {i \in DOMAIN CurrentAnalysis :
        /\ isinstance_dict(CurrentAnalysis[i].val)
        /\ CurrentAnalysis[i].val.items # <<>>
        /\ \A j \in DOMAIN CurrentAnalysis[i].val.items :
               isinstance_dict(CurrentAnalysis[i].val.items[j].val)}

\* the sub-methods of a nested mapping that report a numeric score for a feature
Reporting(subs, f) ==
    {j \in DOMAIN subs : isinstance_number(Get(subs[j].val.items, f, None))}
ReportedSum(subs, f) ==
    SeqSum([j \in DOMAIN subs |->
               IF j \in Reporting(subs, f) THEN Get(subs[j].val.items, f, None).v ELSE 0])
ReportedFeatures(subs) == {f \in Features : Reporting(subs, f) # {}}

NoWeightsSupplied ==
    /\ args.aggregation_weights = None
    /\ env.FEATURE_RANK_WEIGHTS = Unset

\* C20: for a nested mapping sub_method -> feature -> score with no weights
\* supplied, rank_dict ranks exactly the features some sub-method reported a
\* numeric score for, in descending order of the unweighted arithmetic mean of
\* those scores, the mean taken over the sub-methods that reported one.
C20_UnweightedMean ==
    (InIteration /\ NoWeightsSupplied) =>
        \A i \in NestedMethods :
            LET subs == CurrentAnalysis[i].val.items
                ranks == Get(ranked_data, CurrentAnalysis[i].k, <<>>)
            IN  /\ KeySet(ranks) = ReportedFeatures(subs)
                /\ {ranks[j].val : j \in DOMAIN ranks} = 1..Len(ranks)
                /\ \A f, g \in ReportedFeatures(subs) :
                       ReportedSum(subs, f) * Cardinality(Reporting(subs, g))
                           > ReportedSum(subs, g) * Cardinality(Reporting(subs, f))
                       => Get(ranks, f, 0) < Get(ranks, g, 0)

\* a nested mapping was ranked in which a feature with the larger mean has the
\* smaller sum, because fewer sub-methods reported it
C20_Witness ==
    /\ InIteration
    /\ NoWeightsSupplied
    /\ \E i \in NestedMethods :
           LET subs == CurrentAnalysis[i].val.items
               ranks == Get(ranked_data, CurrentAnalysis[i].k, <<>>)
           IN  \E f, g \in ReportedFeatures(subs) :
                   /\ ReportedSum(subs, f) * Cardinality(Reporting(subs, g))
                          > ReportedSum(subs, g) * Cardinality(Reporting(subs, f))
                   /\ ReportedSum(subs, f) < ReportedSum(subs, g)
                   /\ Get(ranks, f, 0) < Get(ranks, g, 0)

(***************************************************************************)
(* Properties of the store of importances.                                 *)
(***************************************************************************)
\* the entries of a mapping: the path of keys to each score, and the score
RECURSIVE Leaves(_, _)
Leaves(prefix, d) ==
    IF isinstance_dict(d)
    THEN UNION {Leaves(Append(prefix, d.items[i].k), d.items[i].val) : i \in DOMAIN d.items}
    ELSE {[path |-> prefix, val |-> d]}

\* the entries a run writes
Written(m) ==
    CASE m.kind = "statistical" -> Leaves(<<m.class_pair>>, Dict(m.scores))
      [] m.kind = "explanation" -> Leaves(<<m.class_pair, m.model_key>>, Dict(m.scores))
      [] OTHER ->
           UNION {Leaves(<<m.class_pair, ImportanceKey(m.scores[i].k)>>, m.scores[i].val) :
                     i \in {j \in DOMAIN m.scores : m.scores[j].k \in {xgb_key, rf_key}}}

Paths(entries) == {e.path : e \in entries}

\* the entries after the first n runs: those of the initial store and of the
\* runs, each holding the value of the latest run that wrote it
RECURSIVE EntriesAfter(_)
EntriesAfter(n) ==
    IF n = 0 THEN Leaves(<<>>, existing_data(initial_store))
    ELSE LET w == Written(merged[n])
         IN  {e \in EntriesAfter(n - 1) : e.path \notin Paths(w)} \cup w

\* C18: after any sequence of store merges run one after another, every
\* class_pair/method/feature entry ever written is present with the value of
\* the most recent merge that wrote it, and a merge changes only the entries
\* it writes: no other class pair, method or feature is removed or altered.
C18_MergesAccumulate ==
    /\ Leaves(<<>>, existing_data(store)) = EntriesAfter(Len(merged))
    /\ \A e \in EntriesAfter(Len(merged)) : isinstance_number(e.val)

\* three runs of the three kinds have merged into a store left by earlier
\* runs; an entry was overwritten and entries of other runs are kept
C18_Witness ==
    /\ Len(merged) = 3
    /\ {merged[n].kind : n \in 1..3} = {"statistical", "explanation", "training"}
    /\ initial_store = StoreText(EarlierStore)
    /\ \E e \in Leaves(<<>>, EarlierStore) :
           e \notin Leaves(<<>>, existing_data(store))
    /\ \E e \in Leaves(<<>>, EarlierStore) :
           /\ e \in Leaves(<<>>, existing_data(store))
           /\ e.path[1] = merged[1].class_pair

\* the run has chosen its best model
Selected == tpc \in {"save", "final", "done"}

\* the highest mean CV-F1 among the trained models
TopF1 == CHOOSE v \in {model_report[n].val.cv_f1 : n \in DOMAIN model_report} :
             \A n \in DOMAIN model_report : model_report[n].val.cv_f1 <= v

\* C14: the best model is the trained model with the highest mean
\* cross-validation F1, and among the models that share the highest score
\* it is the one trained last.
C14_BestIsLastMaximum ==
    Selected =>
        /\ best_model_score = TopF1
        /\ \E n \in DOMAIN model_report :
              /\ model_report[n].k = best_model_name
              /\ model_report[n].val.cv_f1 = TopF1
              /\ \A m \in DOMAIN model_report :
                    model_report[m].val.cv_f1 = TopF1 => m <= n

\* two models tie at 0.80 and the second is the best model
C14_Witness ==
    /\ tpc = "done"
    /\ Len(model_report) = 2
    /\ model_report[1].val.cv_f1 = 80
    /\ model_report[2].val.cv_f1 = 80
    /\ best_model_name = model_report[2].k
    /\ best_model_name # model_report[1].k

\* the artifacts and handles that only a selected model brings
ModelArtifacts == {a \in artifacts : a.kind \in {"best_model.pkl", "explanation_model.pkl"}}

\* C15: once the best model is determined, a best mean CV-F1 below 0.1 ends
\* the run with the error "No best model found", with no best-model artifact
\* saved and no trained-model handles returned; a best score of 0.1 or more
\* makes the floor check raise nothing.
C15_FloorIsFatal ==
    best_model_name # "" =>
        IF best_model_score < UsabilityFloor
        THEN /\ tpc = "raised"
             /\ error = NoBestModel
             /\ ModelArtifacts = {}
             /\ trained_models_info = <<>>
        ELSE error # NoBestModel

\* a run asked to save and to return its models ends at the floor check,
\* every model having scored below 0.1
C15_Witness ==
    /\ tpc = "raised"
    /\ error = NoBestModel
    /\ self.save_best_model
    /\ return_models
    /\ Len(model_report) >= 2
    /\ best_model_score = 5

\* the grids hold one for the model, the names compared ignoring case
HasGrid(model) == \E j \in DOMAIN param : lower(param[j]) = lower(model)

\* C16: with the hyperparameter search on, the grid of a model is found by
\* its name ignoring case, and a model without a grid makes evaluate_models
\* raise: no report is returned for any model, those trained before it
\* included.  With the search off a missing grid is not an error.
C16_MissingGridAbortsBatch ==
    /\ error = GridNotFound =>
          /\ tpc = "raised"
          /\ self.param_finetune
          /\ ~HasGrid(models[model_i])
          /\ model_report = <<>>
    /\ \A n \in DOMAIN searches : HasGrid(searches[n].model)
    /\ (self.param_finetune /\ model_report # <<>>) =>
          \A n \in DOMAIN models : HasGrid(models[n])
    /\ (~self.param_finetune /\ tpc = "done") =>
          /\ searches = <<>>
          /\ Len(model_report) = Len(models)

\* a model was trained and reported, the next one has no grid, and the run
\* ends with no report returned
C16_Witness ==
    /\ tpc = "raised"
    /\ error = GridNotFound
    /\ report # <<>>
    /\ model_report = <<>>
    /\ \E n \in DOMAIN searches : searches[n].model # ParamKey(param, searches[n].model)

\* with the search off, a run whose grids lack one of its models completes
C16_WitnessSearchOff ==
    /\ tpc = "done"
    /\ ~self.param_finetune
    /\ \E n \in DOMAIN models : ~HasGrid(models[n])

\* C17: a hyperparameter search that does not go through the two-stage
\* pipeline (preprocess -> model) is fitted on the already-transformed
\* training features: a bare model is never searched on the raw features.
C17_BareSearchOnTransformed ==
    \A n \in DOMAIN searches :
        searches[n].estimator = "model" => searches[n].X = "X_train"

\* the entries the training run logs when nothing fails
InfoEntries == {"info: model results saved", "info: saved model object",
                "info: model training and evaluation complete"}

\* C19: a failure while writing a side artifact of training (result table,
\* per-model CSVs, classification_summary.csv, the feature_importances.json
\* update, model_reports.json) never ends the run, and once the run is over
\* the failure is in the log.
C19_SideArtifactFailuresContained ==
    outcomes.fails # {} =>
        /\ error \notin {TableWriteFailed, ReportsWriteFailed}
        /\ tpc = "done" => \E n \in DOMAIN log : log[n] \notin InfoEntries

\* a mapping whose values are all numbers, or all mappings of numbers
AllNumeric(d) == \A i \in DOMAIN d.items : isinstance_number(d.items[i].val)
AllNestedNumeric(d) ==
    \A i \in DOMAIN d.items :
        /\ isinstance_dict(d.items[i].val)
        /\ AllNumeric(d.items[i].val)

\* the mapping-valued methods of the current class pair that are neither
MalformedMethods ==
    {i \in DOMAIN CurrentAnalysis :
        /\ isinstance_dict(CurrentAnalysis[i].val)
        /\ ~AllNumeric(CurrentAnalysis[i].val)
        /\ ~AllNestedNumeric(CurrentAnalysis[i].val)}

LoggedErrors == {n \in DOMAIN log : log[n] \in {"error: unsupported structure for ranking",
                                                "error: expected a dictionary"}}

\* C21: for a mapping whose values are neither all numeric nor all mappings
\* of numeric scores (a mix of numbers and sub-mappings, say), rank_dict
\* returns the empty mapping and logs an error.
C21_MalformedRanksEmpty ==
    InIteration =>
        \A i \in MalformedMethods :
            /\ Get(ranked_data, CurrentAnalysis[i].k, <<>>) = <<>>
            /\ LoggedErrors # {}

\* the nested methods of the current class pair: some value is a mapping
NestedMethodsNow ==
    {i \in DOMAIN CurrentAnalysis :
        /\ isinstance_dict(CurrentAnalysis[i].val)
        /\ ~AllNumeric(CurrentAnalysis[i].val)
        /\ \E j \in DOMAIN CurrentAnalysis[i].val.items :
               isinstance_dict(CurrentAnalysis[i].val.items[j].val)}

\* in a ranking of the scored mapping, equal scores keep the mapping's order
TiesKeepOrder(scored, ranks) ==
    \A f, g \in DOMAIN scored :
        (f < g /\ ~FracLess(scored[f].val, scored[g].val)
               /\ ~FracLess(scored[g].val, scored[f].val)) =>
            Get(ranks, scored[f].k, 0) < Get(ranks, scored[g].k, 0)

\* C23: when two features have equal scores (flat scores, or equal
\* aggregated scores of a nested mapping), the one that comes first in the
\* iteration order of the mapping being sorted gets the smaller rank.
C23_StableDescendingSort ==
    pc = "fuse" =>
        /\ \A i \in FlatMethods :
              LET d == CurrentAnalysis[i].val.items
              IN  TiesKeepOrder([j \in DOMAIN d |-> Item(d[j].k, Frac(d[j].val.v, 1))],
                                Get(ranked_data, CurrentAnalysis[i].k, <<>>))
        /\ \A i \in NestedMethodsNow :
              TiesKeepOrder(Aggregated(CurrentAnalysis[i].val, aggregation_weights),
                            Get(ranked_data, CurrentAnalysis[i].k, <<>>))

\* a flat mapping that holds f2 before f1 with the same score ranks f2 first
C23_Witness ==
    /\ pc = "fuse"
    /\ \E i \in FlatMethods :
          LET d == CurrentAnalysis[i].val.items
              ranks == Get(ranked_data, CurrentAnalysis[i].k, <<>>)
          IN  /\ Len(d) >= 2
              /\ d[1].k = "f2"
              /\ d[2].k = "f1"
              /\ d[1].val.v = d[2].val.v
              /\ Get(ranks, "f2", 0) = 1
              /\ Get(ranks, "f1", 0) = 2

\* a nested mapping whose aggregated scores tie is ranked in their order
C23_WitnessNested ==
    /\ pc = "fuse"
    /\ \E i \in NestedMethodsNow :
          LET a == Aggregated(CurrentAnalysis[i].val, aggregation_weights)
          IN  /\ Len(a) >= 2
              /\ a[1].val.n * a[2].val.d = a[2].val.n * a[1].val.d
              /\ Get(Get(ranked_data, CurrentAnalysis[i].k, <<>>), a[1].k, 0) = 1

\* the score source the ROC-AUC is to be computed from
PreferredScores ==
    IF outcomes.predict_proba = "ok" THEN "predict_proba"
    ELSE IF outcomes.decision_function = "ok" THEN "decision_function"
    ELSE "predict"

\* C24: the ROC-AUC on the train and test sets uses the first usable score
\* source in the order probability output, decision function, hard labels:
\* when the probability output is missing or raises and the model has a
\* working decision function, the decision-function scores are used.
C24_FirstUsableScores ==
    \A n \in DOMAIN report : report[n].val.roc_auc_scores = PreferredScores

\* the table feature_rank gives a class pair that is processed first, under
\* the arguments and overrides of the call
RankedAlone(class_pair, analysis) ==
    Fuse(RankedDataFrame(RankAll(analysis.items, args.aggregation_weights, class_pair).data),
         AggName(ResolveAggregation(args.aggregation, env)),
         ResolveWeights(args.aggregation_weights, env),
         ResolveRrfK(args.rrf_k, env)).df

\* C25: the ranking computed and persisted for a class pair is the same
\* whether the class pair is processed alone or after other class pairs of
\* the same call.
C25_PairsIndependent ==
    \A n \in DOMAIN top_features :
        top_features[n].k \in KeySet(all_top_features) =>
            \A f \in files :
                f.path = CsvPath(top_features[n].k, subdir_label) =>
                    f.content = RankedAlone(top_features[n].k, top_features[n].val)

(***************************************************************************)
(* Properties of recompute_ranking.                                        *)
(***************************************************************************)
\* C26: when recompute_ranking is invoked with a run label, the recomputed
\* ranking ends up only under the label's directory and the canonical
\* ranked_features_df.csv of the class pair is left as it was before.
C26_LabelLeavesCanonical ==
    (rpc = "done" /\ argv.agg_label # <<>>) =>
        CanonicalFile(files, argv.class_pair) = CanonicalFile(files_before, argv.class_pair)

(***************************************************************************)
(* Idempotence of the accumulation.                                        *)
(***************************************************************************)
\* the step is a run that merges what the run before it merged
RepeatsLastRun ==
    /\ merged # <<>>
    /\ merged' = Append(merged, merged[Len(merged)])

\* C27: merging the same run's scores into feature_importances.json twice in
\* a row leaves the store the first merge left, and merging the same model
\* reports into model_reports.json twice leaves the document of the first.
C27_MergeTwiceIsOnce ==
    [][RepeatsLastRun => (store' = store /\ model_reports' = model_reports)]_vars

\* a training run was repeated: its importances and its reports were merged
\* twice into a store and a document that earlier runs had left
C27_Witness ==
    /\ Len(merged) = 2
    /\ merged[1] = merged[2]
    /\ merged[1].kind = "training"
    /\ merged[1].class_pair = "AD_Control"
    /\ initial_store = StoreText(EarlierStore)
    /\ Len(existing_data(model_reports["AD_Control"]).items) > Len(merged[1].report)
    /\ Leaves(<<>>, existing_data(store)) # Leaves(<<>>, EarlierStore)

\* a statistical run was repeated
C27_WitnessStatistical ==
    /\ Len(merged) = 2
    /\ merged[1] = merged[2]
    /\ merged[1].kind = "statistical"
    /\ merged[1].scores # <<>>

(***************************************************************************)
(* What the persisted table holds.                                         *)
(***************************************************************************)
\* the table this call wrote for the class pair before the loop position
PersistedTable == ReadFile(files, CsvPath(top_features[idx - 1].k, subdir_label))

\* C28: whatever the fusion algorithm (rrf, rank_product, weighted_borda, sum,
\* an unknown name, or the fallback after the algorithm raised), every row of
\* the persisted table has an 'overall score' equal to the sum of its
\* per-method ranks, and no fusion score column is persisted.
C28_OverallIsRankSum ==
    JustPersisted =>
        /\ "overall score" \in Range(PersistedTable.columns)
        /\ "_score" \notin Range(PersistedTable.columns)
        /\ \A i \in DOMAIN PersistedTable.rows :
               /\ PersistedTable.rows[i].overall = SeqSum(PersistedTable.rows[i].ranks)
               /\ PersistedTable.rows[i].overall = OverallOf(PersistedTable.rows[i].name)
               /\ PersistedTable.rows[i].score = NaN

\* a table ordered by a fusion score was persisted: its rows are not in
\* ascending order of the overall score
C28_Witness ==
    /\ JustPersisted
    /\ AggName(aggregation) \in KnownAlgorithms \ {"sum"}
    /\ \E i, j \in DOMAIN PersistedTable.rows :
           i < j /\ PersistedTable.rows[i].overall > PersistedTable.rows[j].overall

\* a table was persisted after the algorithm raised
C28_WitnessFallback ==
    /\ JustPersisted
    /\ AlgorithmRaises
    /\ Len(PersistedTable.rows) >= 2

\* a table was persisted under an unknown algorithm name
C28_WitnessUnknown ==
    /\ JustPersisted
    /\ AggName(aggregation) \notin KnownAlgorithms
    /\ Len(PersistedTable.rows) >= 2

(***************************************************************************)
(* The order of the steps of evaluate_models.                              *)
(***************************************************************************)
\* the calls made on a model, in the order they were made
CallsOn(model) == SelectSeq(fits, LAMBDA c : c.model = model)

CallNames(calls) == [n \in DOMAIN calls |-> calls[n].call]

IsPrefix(s, t) == Len(s) <= Len(t) /\ SubSeq(t, 1, Len(s)) = s

\* the steps the model goes through: one search, or the pipeline search that
\* raised and the search of the bare model, then the best parameters, when
\* the search is on; then the final fit, the cross-validation, the evaluation
StepsInOrder ==
    LET after == <<"fit", "cross_validation", "evaluation">>
    IN  IF self.param_finetune
        THEN {<<"search", "set_params">> \o after,
              <<"search", "search", "set_params">> \o after}
        ELSE {after}

\* C29: for every model the calls are, in this order, the hyperparameter
\* search (when finetune is on), the best parameters, the final fit, the
\* cross-validation and the train/test evaluation; the final fit is given the
\* complete preprocessed training set whatever the finetune fraction and the
\* search path, and only the search is given the sub-sample.
C29_StepsInOrderFitOnAll ==
    /\ \A n \in DOMAIN models :
           /\ \E steps \in StepsInOrder : IsPrefix(CallNames(CallsOn(models[n])), steps)
           /\ (n < model_i \/ (tpc \in {"table", "csv"} /\ n = model_i)) =>
                  CallNames(CallsOn(models[n])) \in StepsInOrder
    /\ \A n \in DOMAIN fits :
           /\ fits[n].call = "fit" => fits[n].X = "X_train" /\ fits[n].fraction = Complete
           /\ fits[n].fraction \notin {0, Complete} => fits[n].call = "search"

\* a model was searched on half of the raw training rows, through the
\* pipeline search that raised and the search of the bare model, and then
\* fitted, cross-validated and evaluated
C29_Witness ==
    /\ tpc = "done"
    /\ self.param_finetune
    /\ self.finetune_fraction < Complete
    /\ \E n \in DOMAIN models :
           /\ Len(CallsOn(models[n])) = 6
           /\ CallsOn(models[n])[1].X = "X_train_raw"
           /\ CallsOn(models[n])[1].fraction = self.finetune_fraction
           /\ CallsOn(models[n])[4].fraction = Complete

\* a model was fitted, cross-validated and evaluated without a search
C29_WitnessSearchOff ==
    /\ tpc = "done"
    /\ ~self.param_finetune
    /\ Len(fits) = 3 * MaxModels

(***************************************************************************)
(* Two writers at the store.                                               *)
(***************************************************************************)
AllDone == procs # <<>> /\ \A p \in DOMAIN procs : procs[p].pc = "done"

\* the process of the last dump, and the other one
LastWriter == events[Len(events)].proc
FirstWriter == CHOOSE p \in DOMAIN procs : p # LastWriter

\* both processes read the file before either opened it for writing
BothReadFirst ==
    /\ AllDone
    /\ \A p, q \in DOMAIN procs : EventIndex(p, "read") < EventIndex(q, "open")

\* the first dump was over before the file was opened again
WritesApart == EventIndex(FirstWriter, "dump") < EventIndex(LastWriter, "open")

StoredEntries == Leaves(<<>>, existing_data(store))
InitialEntries == Leaves(<<>>, existing_data(initial_store))

\* C22: when two processes both read feature_importances.json before either
\* writes it, the store ends as the document of the process that wrote last:
\* what the file held before, with that process's scores.  The entries only
\* the other process wrote are missing, and a key both wrote has the value of
\* the last writer.
C22_LastWriterWins ==
    BothReadFirst =>
        /\ WritesApart => store.state = "text"
        /\ store.state = "text" =>
              /\ StoredEntries =
                    {e \in InitialEntries : e.path \notin Paths(Written(procs[LastWriter]))}
                    \cup Written(procs[LastWriter])
              /\ \A e \in Written(procs[FirstWriter]) :
                     e.path \notin Paths(InitialEntries)
                                   \cup Paths(Written(procs[LastWriter]))
                         => e.path \notin Paths(StoredEntries)

\* both read, then wrote one after the other: an entry of the first writer is
\* not in the store, and a key both wrote holds the value of the last writer
C22_Witness ==
    /\ BothReadFirst
    /\ WritesApart
    /\ initial_store = StoreText(EarlierStore)
    /\ \E e \in Written(procs[FirstWriter]) : e.path \notin Paths(StoredEntries)
    /\ \E e \in Written(procs[FirstWriter]), g \in Written(procs[LastWriter]) :
           /\ e.path = g.path
           /\ e.val # g.val
           /\ g \in StoredEntries

\* C30: an entry a completed merge stored is in the store after two later
\* writers, however their steps interleave: also when one of them read the
\* file while the other was rewriting it.
C30_StoredEntriesSurvive ==
    (AllDone /\ WritesApart /\ initial_store.state = "text") =>
        Paths(InitialEntries) \subseteq Paths(StoredEntries)

=============================================================================
